---- MODULE Spec2Model ----
(***************************************************************************)
(* Model of the AUX air-conditioner serial protocol component              *)
(* (src/aux_ac_custom_component.h): the packet framer and codec, the link  *)
(* state machine (Idle / Receiving / Parsing / Sending) and the sequence   *)
(* engine, driven by loop() ticks, by bytes arriving on the UART, by the   *)
(* millisecond clock and by user commands.                                 *)
(*                                                                         *)
(* Bytes are naturals 0..255.  Packet buffers are functions over 0..33.    *)
(* Temperatures (C floats) are kept in tenths of a degree.                 *)
(***************************************************************************)
EXTENDS Integers, Sequences, FiniteSets, TLC

(***************************************************************************)
(* Program constants                                                       *)
(***************************************************************************)
AC_STATES_REQUEST_INTERVAL == 7000
AC_MIN_TEMPERATURE == 16
AC_MAX_TEMPERATURE == 32
AC_HEADER_SIZE == 8
AC_MAX_BODY_SIZE == 24
AC_BUFFER_SIZE == 34
AC_PACKET_TIMEOUT == 150
AC_PTYPE_PING == 1
AC_PTYPE_CMD == 6
AC_PTYPE_INFO == 7
AC_PTYPE_INIT == 9
AC_PTYPE_UNKN == 11
AC_CMD_STATUS_BIG == 33
AC_CMD_STATUS_SMALL == 17
AC_CMD_STATUS_PERIODIC == 44
AC_CMD_SET_PARAMS == 1
AC_PACKET_START_BYTE == 187
AC_PACKET_ANSWER == 128
AC_POWER_MASK == 32
AC_CLEAN_MASK == 4
AC_HEALTH_MASK == 2
AC_HEALTH_STATUS_MASK == 1
AC_TEMP_TARGET_INT_PART_MASK == 248
AC_TEMP_TARGET_FRAC_PART_MASK == 128
AC_MODE_MASK == 224
AC_SLEEP_MASK == 4
AC_IFEEL_MASK == 8
AC_LOUVERV_MASK == 7
AC_LOUVERH_MASK == 224
AC_FANSPEED_MASK == 224
AC_FANTURBO_MASK == 64
AC_FANMUTE_MASK == 128
AC_DISPLAY_MASK == 16
AC_MILDEW_MASK == 8
UNTOUCHED == 255
AC_SEQUENCE_MAX_LEN == 15
AC_SEQUENCE_DEFAULT_TIMEOUT == 500

\* enum acsm_state
ACSM_IDLE == 0
ACSM_RECEIVING_PACKET == 1
ACSM_PARSING_PACKET == 2
ACSM_SENDING_PACKET == 3

\* enum sequence_item_type_t
AC_SIT_NONE == 0
AC_SIT_DELAY == 1
AC_SIT_FUNC == 2

\* enum sequence_packet_type_t
AC_SPT_CLEAR == 0
AC_SPT_RECEIVED_PACKET == 1
AC_SPT_SENT_PACKET == 2

\* a null packet_crc_t* / uint8_t* ; a set pointer is its offset into data[]
NULLPTR == -1

(***************************************************************************)
(* Bounds of the model (not program constants)                             *)
(***************************************************************************)
\* millis() when initAC() ran
InitMillis == 1
\* millis() at the first loop() tick
LoopStart == 6751
\* the clock stops advancing here
MaxTime == 7251
\* bytes that may still be unread in the UART when a new burst arrives
MaxBacklog == 0
\* frames (or noise bursts) the unit sends after a start of the module
MaxBursts == 2
\* control() calls after a start of the module
MaxCalls == 1

\* the amount by which millis() is seen to advance between two ticks
ClockStep == 250

(***************************************************************************)
(* Byte arithmetic                                                         *)
(***************************************************************************)
RECURSIVE BitAndN(_, _, _)
BitAndN(a, b, n) ==
    IF n = 0 THEN 0
    ELSE (a % 2) * (b % 2) + 2 * BitAndN(a \div 2, b \div 2, n - 1)

\* a & b on uint8_t
BitAnd(a, b) == BitAndN(a, b, 8)
\* a | b on uint8_t
BitOr(a, b) == a + b - BitAnd(a, b)
\* (uint8_t) ~a
BitNot(a) == 255 - a
\* (old & ~mask) | value, stored to a uint8_t
Overlay(old, mask, value) == BitOr(BitAnd(old, BitNot(mask)), value % 256) % 256

Indices == 0 .. (AC_BUFFER_SIZE - 1)
ZeroData == [i \in Indices |-> 0]

\* the bytes of a sequence laid into a zeroed buffer
ToData(s) == [i \in Indices |-> IF i < Len(s) THEN s[i + 1] ELSE 0]

(***************************************************************************)
(* packet_t                                                                *)
(***************************************************************************)
\* _clearPacket: header points at data, everything else zero / null
clearPacket ==
    [msec |-> 0, bytesLoaded |-> 0, crc |-> NULLPTR, body |-> NULLPTR,
     data |-> ZeroData]

\* _clearOutPacket: start byte and module flag pre-seeded
clearOutPacket ==
    [clearPacket EXCEPT !.data = [ZeroData EXCEPT ![0] = AC_PACKET_START_BYTE,
                                                  ![3] = AC_PACKET_ANSWER]]

\* header fields
packet_type(p) == p.data[2]
body_length(p) == p.data[6]

\* _copyPacket
copyPacket(dest, src) ==
    [msec |-> src.msec,
     bytesLoaded |-> src.bytesLoaded,
     data |-> src.data,
     body |-> IF src.data[6] > 0 THEN AC_HEADER_SIZE ELSE dest.body,
     crc |-> AC_HEADER_SIZE + src.data[6]]

(***************************************************************************)
(* Checksum                                                                *)
(***************************************************************************)
RECURSIVE SumWords(_, _, _)
SumWords(buf, i, len) ==
    IF i >= len THEN 0
    ELSE (buf[i] * 256 + buf[i + 1]) + SumWords(buf, i + 2, len)

\* the fold of the 32-bit accumulator: done once
FoldCarry(crc) == (crc \div 65536) + (crc % 65536)

\* a _CRC16 that stops before an odd trailing byte instead of padding it
\* (used to show what C17 rests on)
CRC16NoPad(data, len) ==
    LET crcBuffer == [i \in Indices |-> IF i < len THEN data[i] ELSE 0]
        evenLen == IF len % 2 = 1 THEN len - 1 ELSE len
        crc == FoldCarry(SumWords(crcBuffer, 0, evenLen))
    IN  65535 - (crc % 65536)

\* _CRC16 over the first len bytes of data (len <= 32 wherever it is called)
CRC16(data, len) ==
    LET crcBuffer == [i \in Indices |-> IF i < len THEN data[i] ELSE 0]
        evenLen == IF len % 2 = 1 THEN len + 1 ELSE len
        crc == FoldCarry(SumWords(crcBuffer, 0, evenLen))
    IN  65535 - (crc % 65536)

\* the two bytes of packet_crc_t on the little-endian target: crc[0], crc[1]
CrcLow(crc16) == crc16 % 256
CrcHigh(crc16) == crc16 \div 256

\* where pack->crc points after the "if nullptr then set" lines
CrcPtr(pack) ==
    IF pack.crc = NULLPTR THEN AC_HEADER_SIZE + body_length(pack) ELSE pack.crc

\* a _setCRC16 that stores the two bytes without swapping them (used to show
\* what C15 rests on)
setCRC16LowFirst(pack) ==
    LET crc16 == CRC16(pack.data, AC_HEADER_SIZE + body_length(pack))
        at == CrcPtr(pack)
    IN  [pack EXCEPT !.crc = at,
                     !.data = [pack.data EXCEPT ![at] = CrcLow(crc16),
                                                ![at + 1] = CrcHigh(crc16)]]

\* _setCRC16
setCRC16(pack) ==
    LET crc16 == CRC16(pack.data, AC_HEADER_SIZE + body_length(pack))
        at == CrcPtr(pack)
    IN  [pack EXCEPT !.crc = at,
                     !.data = [pack.data EXCEPT ![at] = CrcHigh(crc16),
                                                ![at + 1] = CrcLow(crc16)]]

\* a _checkCRC that accepts every packet (used to show what C4 rests on)
AcceptAll(pack) == TRUE

\* a _checkCRC that compares the first checksum byte only (used to show what
\* C14 rests on)
checkCRCFirstByte(pack) ==
    IF pack.bytesLoaded < AC_HEADER_SIZE THEN FALSE
    ELSE pack.data[CrcPtr(pack)] =
            CrcHigh(CRC16(pack.data, AC_HEADER_SIZE + body_length(pack)))

\* _checkCRC (the value returned)
checkCRC(pack) ==
    IF pack.bytesLoaded < AC_HEADER_SIZE THEN FALSE
    ELSE LET crc16 == CRC16(pack.data, AC_HEADER_SIZE + body_length(pack))
             at == CrcPtr(pack)
         IN  /\ pack.data[at] = CrcHigh(crc16)
             /\ pack.data[at + 1] = CrcLow(crc16)

(***************************************************************************)
(* ac_command_t / ac_state_t                                               *)
(***************************************************************************)
\* _clearCommand
clearCommand ==
    [power |-> UNTOUCHED, temp_target |-> 0, temp_target_matter |-> FALSE,
     temp_ambient |-> 0, temp_outdoor |-> 0, clean |-> UNTOUCHED,
     health |-> UNTOUCHED, health_status |-> UNTOUCHED, mode |-> UNTOUCHED,
     sleep |-> UNTOUCHED, iFeel |-> UNTOUCHED, louver_h |-> UNTOUCHED,
     louver_v |-> UNTOUCHED, fanSpeed |-> UNTOUCHED, fanTurbo |-> UNTOUCHED,
     fanMute |-> UNTOUCHED, display |-> UNTOUCHED, mildew |-> UNTOUCHED]

\* a _fillSetCommand without the range clamp (used to show what C20 rests on)
NoClamp(t) == t

\* the range clamp _fillSetCommand applies to cmd->temp_target, in tenths
ClampTemp(t) ==
    IF t < AC_MIN_TEMPERATURE * 10 THEN AC_MIN_TEMPERATURE * 10
    ELSE IF t > AC_MAX_TEMPERATURE * 10 THEN AC_MAX_TEMPERATURE * 10
    ELSE t

\* what _fillSetCommand leaves in *cmd: the target temperature clamped in place
ClampCommand(cmd) ==
    IF cmd.temp_target_matter
    THEN [cmd EXCEPT !.temp_target = ClampTemp(cmd.temp_target)]
    ELSE cmd

\* one enumerated field: written unless it is the untouched sentinel
OverlayField(old, mask, value) ==
    IF value # UNTOUCHED THEN Overlay(old, mask, value) ELSE old

\* _fillSetCommand from "pack->msec = millis()" to _setCRC16, for one *cmd:
\* the packet it leaves (cmd->temp_target is clamped before it is encoded)
FillOne(pack, cmd, t) ==
    LET c == ClampCommand(cmd)
        B == AC_HEADER_SIZE
        d0 == [pack.data EXCEPT ![0] = AC_PACKET_START_BYTE,
                                ![3] = AC_PACKET_ANSWER,
                                ![2] = AC_PTYPE_CMD,
                                ![6] = 15,
                                ![B + 0] = AC_CMD_SET_PARAMS,
                                ![B + 1] = 1]
        tint == (c.temp_target \div 10) % 256
        b2t == IF c.temp_target_matter
               THEN Overlay(d0[B + 2], AC_TEMP_TARGET_INT_PART_MASK, (tint - 8) * 8)
               ELSE d0[B + 2]
        b4 == IF c.temp_target_matter
              THEN (IF c.temp_target - tint * 10 > 0
                    THEN Overlay(d0[B + 4], AC_TEMP_TARGET_FRAC_PART_MASK, 1)
                    ELSE Overlay(d0[B + 4], AC_TEMP_TARGET_FRAC_PART_MASK, 0))
              ELSE d0[B + 4]
        b2 == OverlayField(b2t, AC_LOUVERV_MASK, c.louver_v)
        b3 == OverlayField(d0[B + 3], AC_LOUVERH_MASK, c.louver_h)
        b5 == OverlayField(d0[B + 5], AC_FANSPEED_MASK, c.fanSpeed)
        b6 == OverlayField(OverlayField(d0[B + 6], AC_FANTURBO_MASK, c.fanTurbo),
                           AC_FANMUTE_MASK, c.fanMute)
        b7 == OverlayField(OverlayField(OverlayField(d0[B + 7], AC_MODE_MASK, c.mode),
                                        AC_SLEEP_MASK, c.sleep),
                           AC_IFEEL_MASK, c.iFeel)
        b10 == OverlayField(OverlayField(OverlayField(d0[B + 10], AC_POWER_MASK, c.power),
                                         AC_CLEAN_MASK, c.clean),
                            AC_HEALTH_MASK, c.health)
        b12 == OverlayField(OverlayField(d0[B + 12], AC_DISPLAY_MASK, c.display),
                            AC_MILDEW_MASK, c.mildew)
    IN  setCRC16([pack EXCEPT
                     !.msec = t, !.body = B, !.bytesLoaded = B + 15 + 2,
                     !.crc = B + 15,
                     !.data = [d0 EXCEPT ![B + 2] = b2, ![B + 3] = b3, ![B + 4] = b4,
                                         ![B + 5] = b5, ![B + 6] = b6, ![B + 7] = b7,
                                         ![B + 10] = b10, ![B + 12] = b12]])

\* _fillSetCommand(clrPacket, pack, cmd) with cmd a command other than
\* _current_ac_state: the packet is first filled from _current_ac_state (the
\* recursive call), then overlaid with cmd.  This is the packet it leaves;
\* what it leaves in *cmd and in _current_ac_state is ClampCommand of each.
fillSetCommand(clrPacket, pack, cmd, state, t) ==
    FillOne(FillOne(IF clrPacket THEN clearPacket ELSE pack, state, t), cmd, t)

\* _fillStatusSmall / _fillStatusBig: a 2-byte command body {code, 0x01}
FillStatus(pack, code, t) ==
    LET B == AC_HEADER_SIZE
        d == [pack.data EXCEPT ![0] = AC_PACKET_START_BYTE,
                               ![3] = AC_PACKET_ANSWER,
                               ![2] = AC_PTYPE_CMD,
                               ![6] = 2,
                               ![B + 0] = code,
                               ![B + 1] = 1]
    IN  setCRC16([pack EXCEPT !.msec = t, !.body = B, !.bytesLoaded = B + 2 + 2,
                              !.crc = B + 2, !.data = d])

fillStatusSmall(pack, t) == FillStatus(pack, AC_CMD_STATUS_SMALL, t)
fillStatusBig(pack, t) == FillStatus(pack, AC_CMD_STATUS_BIG, t)

(***************************************************************************)
(* Decoding.  b is the body as the parser reads it: b[i] is               *)
(* _inPacket.body[i].                                                      *)
(***************************************************************************)
\* a small status decoder that drops the half degree (used to show what C33
\* rests on)
DecodeSmallWhole(state, b) ==
    [state EXCEPT
        !.temp_target = 80 + 10 * (b[2] \div 8),
        !.temp_target_matter = TRUE,
        !.louver_v = BitAnd(b[2], AC_LOUVERV_MASK)]

\* the fields a small status packet sets in _current_ac_state
DecodeSmall(state, b) ==
    [state EXCEPT
        !.temp_target = 80 + 10 * (b[2] \div 8) + 5 * (b[4] \div 128),
        !.temp_target_matter = TRUE,
        !.louver_v = BitAnd(b[2], AC_LOUVERV_MASK),
        !.louver_h = BitAnd(b[3], AC_LOUVERH_MASK),
        !.fanSpeed = BitAnd(b[5], AC_FANSPEED_MASK),
        !.fanTurbo = BitAnd(b[6], AC_FANTURBO_MASK),
        !.fanMute = BitAnd(b[6], AC_FANMUTE_MASK),
        !.mode = BitAnd(b[7], AC_MODE_MASK),
        !.sleep = BitAnd(b[7], AC_SLEEP_MASK),
        !.iFeel = BitAnd(b[7], AC_IFEEL_MASK),
        !.power = BitAnd(b[10], AC_POWER_MASK),
        !.health = BitAnd(b[10], AC_HEALTH_MASK),
        !.health_status = BitAnd(b[10], AC_HEALTH_STATUS_MASK),
        !.clean = BitAnd(b[10], AC_CLEAN_MASK),
        !.display = BitAnd(b[12], AC_DISPLAY_MASK),
        !.mildew = BitAnd(b[12], AC_MILDEW_MASK)]

\* the fields a big or periodic status packet sets in _current_ac_state
DecodeBig(state, b) ==
    [state EXCEPT
        !.temp_ambient = (b[7] - 32) * 10 + b[23],
        !.temp_outdoor = (b[9] - 32) * 10]

\* stateChangedFlag of the small status branch: temp_target_matter is not compared
SmallChanged(state, b) ==
    [DecodeSmall(state, b) EXCEPT !.temp_target_matter = state.temp_target_matter]
        # state

\* stateChangedFlag of the big / periodic status branch
BigChanged(state, b) == DecodeBig(state, b) # state

(***************************************************************************)
(* State                                                                   *)
(***************************************************************************)
VARIABLES
    ac_state,                \* _ac_state
    inPacket,                \* _inPacket
    outPacket,               \* _outPacket
    sequence,                \* _sequence[AC_SEQUENCE_MAX_LEN]
    sequence_current_step,   \* _sequence_current_step
    current_ac_state,        \* _current_ac_state
    startupSequenceComlete,  \* _startupSequenceComlete
    dataMillis,              \* _dataMillis
    cnt,                     \* _cnt
    rx,                      \* bytes waiting in the UART (available / peek / read)
    wire,                    \* rest of the frame the unit is in the middle of sending
    tx,                      \* the bytes of the last write_array
    now,                     \* millis()
    bursts,                  \* frames the unit has begun to send since the start
    calls,                   \* control() calls since the start
    ev                       \* what the last step did (observations only)

vars ==
    <<ac_state, inPacket, outPacket, sequence, sequence_current_step,
      current_ac_state, startupSequenceComlete, dataMillis, cnt, rx, wire, tx,
      now, bursts, calls, ev>>

\* the observations of one step: which operation ran and what it did
EvNone(op) ==
    [op |-> op, wrote |-> FALSE, pending |-> 0, notified |-> FALSE,
     func |-> "none", callStep |-> -1, callStart |-> 0, callTimeout |-> 0,
     timedOut |-> FALSE, stepFailed |-> FALSE, built |-> FALSE,
     decoded |-> FALSE, polled |-> FALSE, loaded |-> FALSE, ub |-> FALSE,
     crc |-> "na", ptype |-> -1, startup |-> "na", moves |-> 0,
     cmd |-> clearCommand, state |-> clearCommand]

\* the object's fields and the UART as one record, for the handlers below
Cur(op) ==
    [ac_state |-> ac_state, inPacket |-> inPacket, outPacket |-> outPacket,
     sequence |-> sequence, step |-> sequence_current_step,
     state |-> current_ac_state, startup |-> startupSequenceComlete,
     dataMillis |-> dataMillis, cnt |-> cnt, rx |-> rx, tx |-> tx,
     ev |-> EvNone(op)]

Commit(m) ==
    /\ ac_state' = m.ac_state
    /\ inPacket' = m.inPacket
    /\ outPacket' = m.outPacket
    /\ sequence' = m.sequence
    /\ sequence_current_step' = m.step
    /\ current_ac_state' = m.state
    /\ startupSequenceComlete' = m.startup
    /\ dataMillis' = m.dataMillis
    /\ cnt' = m.cnt
    /\ rx' = m.rx
    /\ tx' = m.tx
    /\ ev' = m.ev

\* millis() - msec on uint32_t.  A stamp ahead of the clock wraps to
\* 2^32 - (msec - t), which is beyond every interval it is compared with
\* and is represented by the largest integer.
Elapsed(t, msec) == IF t >= msec THEN t - msec ELSE 2147483647

(***************************************************************************)
(* Sequence engine                                                         *)
(***************************************************************************)
Slots == 0 .. (AC_SEQUENCE_MAX_LEN - 1)

emptySlot ==
    [item_type |-> AC_SIT_NONE, func |-> "nullptr", timeout |-> 0, msec |-> 0,
     packet_type |-> AC_SPT_CLEAR, packet |-> clearPacket, cmd |-> clearCommand]

\* a clear that leaves the cursor where it was (used to show what C37 rests
\* on)
clearSlotsOnly(m) ==
    [m EXCEPT !.sequence = [i \in 0 .. (AC_SEQUENCE_MAX_LEN - 1) |->
                               [item_type |-> AC_SIT_NONE, func |-> "nullptr",
                                timeout |-> 0, msec |-> 0,
                                packet_type |-> AC_SPT_CLEAR,
                                packet |-> clearPacket, cmd |-> clearCommand]]]

\* _clearSequence
clearSequence(m) ==
    [m EXCEPT !.sequence = [i \in Slots |-> emptySlot], !.step = 0]

\* hasSequence
hasSequence(seq) == seq[0].item_type # AC_SIT_NONE

\* the body as the code reads it through pck->body: a null body pointer is
\* dereferenced (undefined behaviour); g stands for whatever is read then
BodyView(pck, g) ==
    [i \in 0 .. (AC_MAX_BODY_SIZE - 1) |->
        IF pck.body = NULLPTR THEN g[i] ELSE pck.data[pck.body + i]]

\* request steps that never wait for the outgoing buffer (used to show what
\* C31 rests on)
NeverBusy(m) == FALSE

\* "if (_outPacket.bytesLoaded > 0) return true" of the request steps
OutPacketBusy(m) == m.outPacket.bytesLoaded > 0

\* sq_requestSmallStatus
sq_requestSmallStatus(m, t) ==
    IF OutPacketBusy(m) THEN m
    ELSE [m EXCEPT !.outPacket = fillStatusSmall(@, t),
                   !.sequence[m.step].packet = fillStatusSmall(@, t),
                   !.sequence[m.step].packet_type = AC_SPT_SENT_PACKET,
                   !.step = @ + 1]

\* sq_requestBigStatus
sq_requestBigStatus(m, t) ==
    IF OutPacketBusy(m) THEN m
    ELSE [m EXCEPT !.outPacket = fillStatusBig(@, t),
                   !.sequence[m.step].packet = fillStatusBig(@, t),
                   !.sequence[m.step].packet_type = AC_SPT_SENT_PACKET,
                   !.step = @ + 1]

\* sq_requestDoCommand: _fillSetCommand runs twice on the slot's command, each
\* run clamping the command and _current_ac_state in place
sq_requestDoCommand(m, t) ==
    IF OutPacketBusy(m) THEN m
    ELSE [m EXCEPT
             !.outPacket = fillSetCommand(TRUE, @, m.sequence[m.step].cmd,
                                          m.state, t),
             !.sequence[m.step].packet =
                 fillSetCommand(TRUE, @, ClampCommand(m.sequence[m.step].cmd),
                                ClampCommand(m.state), t),
             !.sequence[m.step].cmd = ClampCommand(ClampCommand(@)),
             !.state = ClampCommand(ClampCommand(@)),
             !.sequence[m.step].packet_type = AC_SPT_SENT_PACKET,
             !.ev.built = TRUE,
             !.step = @ + 1]

\* control steps that do not exempt pings (used to show what C8 rests on)
NeverIgnored(pck) == FALSE

\* "if (_inPacket.header->packet_type == AC_PTYPE_PING) return true"
IgnoredByControl(pck) == packet_type(pck) = AC_PTYPE_PING

\* the relevance test of sq_controlSmallStatus / sq_controlBigStatus
StatusRelevant(pck, len, code, g) ==
    /\ packet_type(pck) = AC_PTYPE_INFO
    /\ body_length(pck) = len
    /\ BodyView(pck, g)[0] = 1
    /\ BodyView(pck, g)[1] = code

\* the relevance test of sq_controlDoCommand: prev is the packet of the
\* preceding slot, read through its crc pointer
DoCommandRelevant(pck, prev, g) ==
    /\ packet_type(pck) = AC_PTYPE_INFO
    /\ body_length(pck) = 4
    /\ BodyView(pck, g)[0] = 1
    /\ BodyView(pck, g)[1] = AC_CMD_SET_PARAMS
    /\ BodyView(pck, g)[2] = prev.data[prev.crc]
    /\ BodyView(pck, g)[3] = prev.data[prev.crc + 1]

\* whether a control step reads _inPacket.body[] through a null pointer
ControlReadsNull(pck, len) ==
    /\ packet_type(pck) = AC_PTYPE_INFO
    /\ body_length(pck) = len
    /\ pck.body = NULLPTR

\* the common body of the three control steps; relevant is the outcome of the
\* step's relevance test.  A step that returns false leaves ev.stepFailed set.
sq_control(m, relevant, readsNull) ==
    IF m.inPacket.bytesLoaded = 0 THEN m
    ELSE IF IgnoredByControl(m.inPacket) THEN m
    ELSE [m EXCEPT
             !.sequence[m.step].packet = copyPacket(@, m.inPacket),
             !.sequence[m.step].packet_type = AC_SPT_RECEIVED_PACKET,
             !.ev.ub = @ \/ readsNull,
             !.ev.stepFailed = ~relevant,
             !.step = IF relevant THEN @ + 1 ELSE @]

\* sq_controlSmallStatus
sq_controlSmallStatus(m, g) ==
    sq_control(m, StatusRelevant(m.inPacket, 15, AC_CMD_STATUS_SMALL, g),
               ControlReadsNull(m.inPacket, 15))

\* sq_controlBigStatus
sq_controlBigStatus(m, g) ==
    sq_control(m, StatusRelevant(m.inPacket, 24, AC_CMD_STATUS_BIG, g),
               ControlReadsNull(m.inPacket, 24))

\* sq_controlDoCommand
sq_controlDoCommand(m, g) ==
    sq_control(m, DoCommandRelevant(m.inPacket, m.sequence[m.step - 1].packet, g),
               ControlReadsNull(m.inPacket, 4))

\* (this->*_sequence[_sequence_current_step].func)()
CallStep(func, m, t, g) ==
    CASE func = "sq_requestSmallStatus" -> sq_requestSmallStatus(m, t)
      [] func = "sq_requestBigStatus" -> sq_requestBigStatus(m, t)
      [] func = "sq_requestDoCommand" -> sq_requestDoCommand(m, t)
      [] func = "sq_controlSmallStatus" -> sq_controlSmallStatus(m, g)
      [] func = "sq_controlBigStatus" -> sq_controlBigStatus(m, g)
      [] func = "sq_controlDoCommand" -> sq_controlDoCommand(m, g)

\* "if (!(this->*func)()) { _clearSequence(); return; }"
AfterStep(r) == IF r.ev.stepFailed THEN clearSequence(r) ELSE r

\* the timeout a function step runs with: 0 means the default
EffectiveTimeout(timeout) ==
    IF timeout = 0 THEN AC_SEQUENCE_DEFAULT_TIMEOUT ELSE timeout

\* the start time of the current step: stamped when msec is still 0
StepStart(msec, t) == IF msec = 0 THEN t ELSE msec

\* a step without a timeout (used to show what C24 rests on)
StepNeverTimedOut(t, msec, timeout) == FALSE

\* a step timeout that fires one millisecond late (used to show what C7 rests on)
StepTimedOutLate(t, msec, timeout) == Elapsed(t, msec) > timeout

\* "millis() - msec >= timeout" of a sequence step
StepTimedOut(t, msec, timeout) == Elapsed(t, msec) >= timeout

\* the current slot with its start time and timeout written back
Stamped(m, t) ==
    [m EXCEPT !.sequence[m.step].msec = StepStart(@, t),
              !.sequence[m.step].timeout = EffectiveTimeout(@),
              !.ev.callStep = m.step,
              !.ev.callStart = StepStart(m.sequence[m.step].msec, t),
              !.ev.callTimeout = EffectiveTimeout(m.sequence[m.step].timeout)]

\* _doSequence, case AC_SIT_FUNC
doFuncStep(m, t, g) ==
    IF m.sequence[m.step].func = "nullptr" THEN clearSequence(m)
    ELSE IF StepTimedOut(t, StepStart(m.sequence[m.step].msec, t),
                         EffectiveTimeout(m.sequence[m.step].timeout))
    THEN clearSequence([Stamped(m, t) EXCEPT !.ev.timedOut = TRUE])
    ELSE AfterStep(CallStep(m.sequence[m.step].func,
                            [Stamped(m, t) EXCEPT
                                !.ev.func = m.sequence[m.step].func],
                            t, g))

\* _doSequence, case AC_SIT_DELAY
doDelayStep(m, t) ==
    [m EXCEPT !.sequence[m.step].msec = StepStart(@, t),
              !.step = IF StepTimedOut(t, StepStart(m.sequence[m.step].msec, t),
                                       m.sequence[m.step].timeout)
                       THEN @ + 1 ELSE @]

\* _doSequence
doSequence(m, t, g) ==
    IF ~hasSequence(m.sequence) THEN m
    ELSE IF m.step >= AC_SEQUENCE_MAX_LEN THEN clearSequence(m)
    ELSE CASE m.sequence[m.step].item_type = AC_SIT_FUNC -> doFuncStep(m, t, g)
           [] m.sequence[m.step].item_type = AC_SIT_DELAY -> doDelayStep(m, t)
           [] OTHER -> clearSequence(m)

(***************************************************************************)
(* Sequence builders                                                       *)
(***************************************************************************)
\* "_sequence[step].item_type = AC_SIT_FUNC; _sequence[step].func = ..."
SetFunc(seq, i, func) ==
    [seq EXCEPT ![i].item_type = AC_SIT_FUNC, ![i].func = func]

\* the four steps startupSequence writes into a cleared sequence
StartupSteps ==
    SetFunc(SetFunc(SetFunc(SetFunc([i \in Slots |-> emptySlot],
                                    0, "sq_requestSmallStatus"),
                            1, "sq_controlSmallStatus"),
                    2, "sq_requestBigStatus"),
            3, "sq_controlBigStatus")

\* startupSequence: the value it returns
startupSequenceLoads(m) == ~hasSequence(m.sequence)

\* startupSequence: the object it leaves
startupSequence(m) ==
    IF hasSequence(m.sequence) THEN m
    ELSE [m EXCEPT !.sequence = StartupSteps, !.step = 0]

\* the slot the "for" loop of commandSequence stops at: the first one whose
\* item_type is not AC_SIT_NONE (0 when the loop finds none)
AppendStart(seq) ==
    LET hit == {i \in Slots : seq[i].item_type # AC_SIT_NONE}
    IN  IF hit = {} THEN 0 ELSE CHOOSE i \in hit : \A j \in hit : i <= j

\* the six steps commandSequence writes from slot "step" on
CommandSteps(seq, step, cmd) ==
    SetFunc(SetFunc(SetFunc([SetFunc(SetFunc(SetFunc(seq,
                                                     step, "sq_requestSmallStatus"),
                                             step + 1, "sq_controlSmallStatus"),
                                     step + 2, "sq_requestDoCommand")
                                EXCEPT ![step + 2].cmd = cmd],
                            step + 3, "sq_controlDoCommand"),
                    step + 4, "sq_requestSmallStatus"),
            step + 5, "sq_controlSmallStatus")

\* commandSequence
commandSequence(m, cmd) ==
    IF hasSequence(m.sequence) /\ AppendStart(m.sequence) >= AC_SEQUENCE_MAX_LEN - 1
    THEN m
    ELSE [m EXCEPT !.sequence =
             CommandSteps(@, IF hasSequence(m.sequence)
                             THEN AppendStart(m.sequence) ELSE 0, cmd)]

\* getStatusSmall: two steps written from slot 0, nothing else touched
getStatusSmall(m) ==
    IF hasSequence(m.sequence) THEN m
    ELSE [m EXCEPT !.sequence = SetFunc(SetFunc(@, 0, "sq_requestSmallStatus"),
                                        1, "sq_controlSmallStatus")]

\* getStatusBig
getStatusBig(m) ==
    IF hasSequence(m.sequence) THEN m
    ELSE [m EXCEPT !.sequence = SetFunc(SetFunc(@, 0, "sq_requestBigStatus"),
                                        1, "sq_controlBigStatus")]

\* a powerSequence without the hasSequence() test (used to show what C11
\* rests on)
powerSequenceUnguarded(m, pwr) ==
    IF pwr = UNTOUCHED THEN m
    ELSE commandSequence(m, [clearCommand EXCEPT !.power = pwr])

\* powerSequence
powerSequence(m, pwr) ==
    IF pwr = UNTOUCHED \/ hasSequence(m.sequence) THEN m
    ELSE commandSequence(m, [clearCommand EXCEPT !.power = pwr])

(***************************************************************************)
(* Link state machine                                                      *)
(***************************************************************************)
\* _setStateMachineState; ev.moves counts the calls that change the state
setStateMachineState(m, state) ==
    IF m.ac_state = state THEN m
    ELSE [m EXCEPT !.ac_state = state, !.ev.moves = @ + 1]

\* an Idle handler that hands over to Sending without asking available()
\* (used to show what C3 rests on)
QueuedOnly(m) == m.outPacket.msec > 0

\* "available() == 0" and "_outPacket.msec > 0": Idle hands over to Sending
IdleSends(m) == Len(m.rx) = 0 /\ m.outPacket.msec > 0

\* the "while (available() > 0)" loop of _doIdleState: bytes that do not
\* start a packet are collected in _inPacket
RECURSIVE DrainNoise(_)
DrainNoise(m) ==
    IF Len(m.rx) = 0 THEN m
    ELSE IF Head(m.rx) = AC_PACKET_START_BYTE THEN m
    ELSE LET n == m.inPacket.bytesLoaded
             p == [m.inPacket EXCEPT !.data[n] = Head(m.rx), !.bytesLoaded = n + 1]
         IN  DrainNoise([m EXCEPT
                            !.rx = Tail(@),
                            !.inPacket = IF n + 1 >= AC_BUFFER_SIZE
                                         THEN clearPacket ELSE p])

\* an Idle handler that starts a packet without stamping it (used to show
\* what C27 rests on)
IdleUnstamped(m, t) ==
    IF IdleSends(m) THEN setStateMachineState(m, ACSM_SENDING_PACKET)
    ELSE IF Len(m.rx) = 0 THEN m
    ELSE IF Head(m.rx) = AC_PACKET_START_BYTE
    THEN setStateMachineState([m EXCEPT !.inPacket = clearPacket],
                              ACSM_RECEIVING_PACKET)
    ELSE DrainNoise(m)

\* _doIdleState after its _doSequence() call
IdleAfterSequence(m, t) ==
    IF IdleSends(m) THEN setStateMachineState(m, ACSM_SENDING_PACKET)
    ELSE IF Len(m.rx) = 0 THEN m
    ELSE IF Head(m.rx) = AC_PACKET_START_BYTE
    THEN setStateMachineState(
            [m EXCEPT !.inPacket = [clearPacket EXCEPT !.msec = t]],
            ACSM_RECEIVING_PACKET)
    ELSE DrainNoise(m)

\* _doIdleState
doIdleState(m, t, g) == IdleAfterSequence(doSequence(m, t, g), t)

\* a receive loop without the overflow check (used to show what C29 rests on)
RECURSIVE ReceiveLoopUnchecked(_)
ReceiveLoopUnchecked(m) ==
    IF Len(m.rx) = 0 THEN m
    ELSE LET n == m.inPacket.bytesLoaded + 1
             d == [i \in Indices |->
                      IF i = n - 1 THEN Head(m.rx) ELSE m.inPacket.data[i]]
             p == [m.inPacket EXCEPT
                      !.data = d,
                      !.bytesLoaded = n,
                      !.crc = IF n = AC_HEADER_SIZE
                              THEN AC_HEADER_SIZE + d[6] ELSE @,
                      !.body = IF n = AC_HEADER_SIZE /\ d[6] > 0
                               THEN AC_HEADER_SIZE ELSE @]
             m1 == [m EXCEPT !.rx = Tail(@), !.inPacket = p]
         IN  IF n = AC_HEADER_SIZE + d[6] + 2
             THEN setStateMachineState(m1, ACSM_PARSING_PACKET)
             ELSE ReceiveLoopUnchecked(m1)

\* the "while (available() > 0)" loop of _doReceivingPacketState; it returns
\* with the state changed (overflow, packet complete) or with the UART empty
RECURSIVE ReceiveLoop(_)
ReceiveLoop(m) ==
    IF Len(m.rx) = 0 THEN m
    ELSE IF m.inPacket.bytesLoaded >= AC_BUFFER_SIZE
    THEN setStateMachineState([m EXCEPT !.inPacket = clearPacket], ACSM_IDLE)
    ELSE LET n == m.inPacket.bytesLoaded + 1
             d == [m.inPacket.data EXCEPT ![n - 1] = Head(m.rx)]
             p == [m.inPacket EXCEPT
                      !.data = d,
                      !.bytesLoaded = n,
                      !.crc = IF n = AC_HEADER_SIZE
                              THEN AC_HEADER_SIZE + d[6] ELSE @,
                      !.body = IF n = AC_HEADER_SIZE /\ d[6] > 0
                               THEN AC_HEADER_SIZE ELSE @]
             m1 == [m EXCEPT !.rx = Tail(@), !.inPacket = p]
         IN  IF n = AC_HEADER_SIZE + d[6] + 2
             THEN setStateMachineState(m1, ACSM_PARSING_PACKET)
             ELSE ReceiveLoop(m1)

\* a receiver without a packet timeout (used to show what C2 rests on)
NeverTimedOut(t, msec) == FALSE

\* a receiver that gives up only after more than the timeout (used to show
\* what C28 rests on)
ReceiveTimedOutLate(t, msec) == Elapsed(t, msec) > AC_PACKET_TIMEOUT

\* "millis() - _inPacket.msec >= AC_PACKET_TIMEOUT"
ReceiveTimedOut(t, msec) == Elapsed(t, msec) >= AC_PACKET_TIMEOUT

\* a receiver whose loop does not return when the packet is complete (used to
\* show what C23 rests on)
ReceiveFallsThrough(m, t) ==
    IF ReceiveTimedOut(t, m.inPacket.msec)
    THEN setStateMachineState([m EXCEPT !.inPacket = clearPacket], ACSM_IDLE)
    ELSE m

\* _doReceivingPacketState after its "while" loop
ReceiveAfterLoop(m, t) ==
    IF m.ac_state # ACSM_RECEIVING_PACKET THEN m
    ELSE IF ReceiveTimedOut(t, m.inPacket.msec)
    THEN setStateMachineState([m EXCEPT !.inPacket = clearPacket], ACSM_IDLE)
    ELSE m

\* a receiver that starts every tick with an empty buffer (used to show what
\* C22 rests on)
doReceivingAfresh(m, t) ==
    ReceiveAfterLoop(
        ReceiveLoop([m EXCEPT !.inPacket = [clearPacket EXCEPT !.msec = m.inPacket.msec]]),
        t)

\* _doReceivingPacketState
doReceivingPacketState(m, t) == ReceiveAfterLoop(ReceiveLoop(m), t)

\* a ping answer whose checksum bytes are left as _clearOutPacket left them
\* (used to show what C13 rests on)
PingAnswerUnsigned(t) ==
    LET B == AC_HEADER_SIZE
        d == [clearOutPacket.data EXCEPT ![2] = AC_PTYPE_PING, ![4] = 1, ![6] = 8,
                                         ![B] = 28, ![B + 1] = 39]
    IN  [clearOutPacket EXCEPT !.msec = t, !.data = d, !.body = B,
                               !.crc = B + 8, !.bytesLoaded = B + 8 + 2]

\* the ping answer the parser builds in _outPacket
PingAnswer(t) ==
    LET B == AC_HEADER_SIZE
        d == [clearOutPacket.data EXCEPT ![2] = AC_PTYPE_PING, ![4] = 1, ![6] = 8,
                                         ![B] = 28, ![B + 1] = 39]
    IN  [setCRC16([clearOutPacket EXCEPT !.msec = t, !.data = d, !.body = B,
                                         !.crc = B + 8])
            EXCEPT !.bytesLoaded = B + 8 + 2]

\* a checksum-failure branch that keeps the damaged packet (used to show what
\* C5 rests on)
KeepsBadPacket(m) ==
    setStateMachineState([m EXCEPT !.ev.crc = "fail"], ACSM_IDLE)

\* _doParsingPacket, checksum failure
ParseBadCrc(m) ==
    setStateMachineState([m EXCEPT !.inPacket = clearPacket, !.ev.crc = "fail"],
                         ACSM_IDLE)

\* a default branch that forgets to leave Parsing (used to show what C1 rests on)
StaysParsing(m) == m

\* a ping handler that loads on every ping (used to show what C12 rests on)
StartupEveryPing(m) ==
    [startupSequence(m) EXCEPT
        !.startup = startupSequenceLoads(m),
        !.ev.startup = IF startupSequenceLoads(m) THEN "loaded" ELSE "busy"]

\* "if (!_startupSequenceComlete) _startupSequenceComlete = startupSequence()"
StartupOnce(m) ==
    IF m.startup THEN [m EXCEPT !.ev.startup = "done"]
    ELSE [startupSequence(m) EXCEPT
             !.startup = startupSequenceLoads(m),
             !.ev.startup = IF startupSequenceLoads(m) THEN "loaded" ELSE "busy"]

\* a ping handler that builds the answer and goes back to Idle (used to show
\* what C40 rests on)
ParsePingToIdle(m, t) ==
    setStateMachineState(StartupOnce([m EXCEPT !.outPacket = PingAnswer(t)]),
                         ACSM_IDLE)

\* _doParsingPacket, case AC_PTYPE_PING
ParsePing(m, t) ==
    setStateMachineState(StartupOnce([m EXCEPT !.outPacket = PingAnswer(t)]),
                         ACSM_SENDING_PACKET)

\* a command branch that leaves the frame in the incoming buffer (used to show
\* what C32 rests on)
ParseCmdKept(m) == setStateMachineState(m, ACSM_IDLE)

\* _doParsingPacket, case AC_PTYPE_CMD
ParseCmd(m) ==
    setStateMachineState([m EXCEPT !.inPacket = clearPacket], ACSM_IDLE)

\* the inner switch of case AC_PTYPE_INFO, on b[1] = _inPacket.body[1]
DecodeInfo(m, b) ==
    CASE b[1] = AC_CMD_STATUS_SMALL ->
            [m EXCEPT !.state = DecodeSmall(@, b),
                      !.ev.decoded = TRUE,
                      !.ev.notified = SmallChanged(m.state, b)]
      [] b[1] \in {AC_CMD_STATUS_BIG, AC_CMD_STATUS_PERIODIC} ->
            [m EXCEPT !.state = DecodeBig(@, b),
                      !.ev.decoded = TRUE,
                      !.ev.notified = BigChanged(m.state, b)]
      [] OTHER -> m

\* _doParsingPacket, case AC_PTYPE_INFO
ParseInfo(m, g) ==
    setStateMachineState(
        DecodeInfo([m EXCEPT !.ev.ub = @ \/ (m.inPacket.body = NULLPTR)],
                   BodyView(m.inPacket, g)),
        ACSM_IDLE)

\* a default branch that discards the frame as the command branch does (used
\* to show what C38 rests on)
ParseOtherDiscards(m) ==
    setStateMachineState([m EXCEPT !.inPacket = clearPacket], ACSM_IDLE)

\* _doParsingPacket, cases AC_PTYPE_INIT, AC_PTYPE_UNKN and default
ParseOther(m) == setStateMachineState(m, ACSM_IDLE)

\* _doParsingPacket, the switch on the packet type
ParseDispatch(m, t, g) ==
    CASE packet_type(m.inPacket) = AC_PTYPE_PING -> ParsePing(m, t)
      [] packet_type(m.inPacket) = AC_PTYPE_CMD -> ParseCmd(m)
      [] packet_type(m.inPacket) = AC_PTYPE_INFO -> ParseInfo(m, g)
      [] OTHER -> ParseOther(m)

\* "if (hasSequence()) _doSequence(); _clearInPacket();"
ParseFinish(m, t, g) ==
    IF hasSequence(m.sequence)
    THEN [doSequence(m, t, g) EXCEPT !.inPacket = clearPacket]
    ELSE [m EXCEPT !.inPacket = clearPacket]

\* _doParsingPacket
doParsingPacket(m, t, g) ==
    IF ~checkCRC(m.inPacket) THEN ParseBadCrc(m)
    ELSE ParseFinish(
            ParseDispatch([m EXCEPT !.ev.crc = "ok",
                                    !.ev.ptype = packet_type(m.inPacket)],
                          t, g),
            t, g)

\* the bytes write_array puts on the line
Written(pack) == [i \in 1 .. pack.bytesLoaded |-> pack.data[i - 1]]

\* _doSendingPacketState
doSendingPacketState(m) ==
    IF m.outPacket.msec = 0 \/ m.outPacket.crc = NULLPTR \/ m.outPacket.bytesLoaded = 0
    THEN setStateMachineState(m, ACSM_IDLE)
    ELSE setStateMachineState(
            [m EXCEPT !.tx = Written(m.outPacket),
                      !.ev.wrote = TRUE,
                      !.ev.pending = Len(m.rx),
                      !.outPacket = clearOutPacket],
            ACSM_IDLE)

\* "(millis() - _dataMillis) > AC_STATES_REQUEST_INTERVAL"
PollDue(t, last) == Elapsed(t, last) > AC_STATES_REQUEST_INTERVAL

\* the tail of loop(): the periodic status request
poll(m, t) ==
    IF PollDue(t, m.dataMillis)
    THEN [startupSequence(m) EXCEPT
             !.dataMillis = t,
             !.cnt = IF m.cnt + 1 > 7 THEN 0 ELSE m.cnt + 1,
             !.ev.polled = TRUE,
             !.ev.loaded = startupSequenceLoads(m)]
    ELSE m

(***************************************************************************)
(* Environment: what the air conditioner puts on the line, what a read     *)
(* through a null pointer returns, what the user asks for                  *)
(***************************************************************************)
\* a frame as the unit sends it: header, body, the checksum _checkCRC accepts
Frame(type, body) ==
    LET s == <<AC_PACKET_START_BYTE, 0, type, 0, 0, 0, Len(body), 0>> \o body
        c == CRC16(ToData(s), Len(s))
    IN  s \o <<CrcHigh(c), CrcLow(c)>>

FramePing == Frame(AC_PTYPE_PING, <<>>)
\* small status, target 27.5, cooling, power on
FrameSmall ==
    Frame(AC_PTYPE_INFO,
          <<1, AC_CMD_STATUS_SMALL, 159, 224, 128, 160, 0, 32, 0, 0, 32, 0, 0, 0, 0>>)
\* small status whose target temperature field decodes to 12.0
FrameSmallCold ==
    Frame(AC_PTYPE_INFO,
          <<1, AC_CMD_STATUS_SMALL, 39, 224, 0, 160, 0, 32, 0, 0, 32, 0, 0, 0, 0>>)
\* big status, ambient 22.5, outdoor byte 64
FrameBig ==
    Frame(AC_PTYPE_INFO,
          <<1, AC_CMD_STATUS_BIG, 0, 0, 0, 0, 0, 54, 0, 64, 0, 0,
            0, 0, 0, 0, 0, 0, 0, 0, 0, 0, 0, 5>>)
\* the unit's answer to a set-params command: it echoes the checksum bytes of
\* the frame it received
FrameEcho(sent) ==
    Frame(AC_PTYPE_INFO,
          <<1, AC_CMD_SET_PARAMS,
            IF Len(sent) >= 2 THEN sent[Len(sent) - 1] ELSE 0,
            IF Len(sent) >= 2 THEN sent[Len(sent)] ELSE 0>>)
\* a command-type frame (the unit is not expected to send one)
FrameCmd == Frame(AC_PTYPE_CMD, <<AC_CMD_STATUS_SMALL, 1>>)
FrameInit == Frame(AC_PTYPE_INIT, <<>>)
\* an info frame that declares an empty body
FrameInfoEmpty == Frame(AC_PTYPE_INFO, <<>>)
\* a small status frame damaged on the line: last checksum byte flipped
FrameDamaged ==
    [i \in 1 .. Len(FrameSmall) |->
        IF i = Len(FrameSmall) THEN 255 - FrameSmall[i] ELSE FrameSmall[i]]
\* a header that declares a body of 30 bytes, followed by 26 more bytes
FrameOverlong ==
    <<AC_PACKET_START_BYTE, 0, AC_PTYPE_INFO, 0, 0, 0, 30, 0>>
        \o [i \in 1 .. 26 |-> 0]
\* line noise: 17 bytes, none of them the start byte
Noise == [i \in 1 .. 17 |-> 85]
\* noise that happens to look like the header of a small status frame
NoiseInfo ==
    [i \in 1 .. 17 |-> CASE i = 3 -> AC_PTYPE_INFO [] i = 7 -> 15 [] OTHER -> 0]

\* what the unit may send next, given the last frame written to it
Frames(sent) ==
    {FramePing, FrameSmall, FrameSmallCold, FrameBig, FrameEcho(sent), FrameCmd,
     FrameInit, FrameInfoEmpty, FrameDamaged, FrameOverlong, Noise, NoiseInfo}

\* a burst may end after this many bytes of a frame, the rest following later
SplitAt == 9
\* the frames that are seen to arrive in two bursts
SplitFrames == {FrameSmall}

\* what a read of body[i] through a null pointer may return
BodyIndices == 0 .. (AC_MAX_BODY_SIZE - 1)
NullPages ==
    {[i \in BodyIndices |-> 0],
     [i \in BodyIndices |->
        CASE i = 0 -> 1 [] i = 1 -> AC_CMD_STATUS_SMALL [] i = 2 -> 39 [] OTHER -> 0]}

\* the commands control() hands to commandSequence
AC_POWER_OFF == 0
CmdPowerOff == [clearCommand EXCEPT !.power = AC_POWER_OFF]
CmdTemp == [clearCommand EXCEPT !.temp_target = 245, !.temp_target_matter = TRUE]
Commands == {CmdPowerOff, CmdTemp}

(***************************************************************************)
(* Initial state: the object after initAC(parent)                          *)
(***************************************************************************)
Init ==
    /\ ac_state = ACSM_IDLE
    /\ inPacket = clearPacket
    /\ outPacket = clearOutPacket
    /\ sequence = [i \in Slots |-> emptySlot]
    /\ sequence_current_step = 0
    /\ current_ac_state = clearCommand
    /\ startupSequenceComlete = FALSE
    /\ dataMillis = InitMillis
    /\ cnt = 0
    /\ rx = <<>>
    /\ wire = <<>>
    /\ tx = <<>>
    /\ now = LoopStart
    /\ bursts = 0
    /\ calls = 0
    /\ ev = EvNone("initAC")

(***************************************************************************)
(* Actions                                                                 *)
(***************************************************************************)
\* the module starts again: initAC() on a fresh object
Restart ==
    /\ ac_state' = ACSM_IDLE
    /\ inPacket' = clearPacket
    /\ outPacket' = clearOutPacket
    /\ sequence' = [i \in Slots |-> emptySlot]
    /\ sequence_current_step' = 0
    /\ current_ac_state' = clearCommand
    /\ startupSequenceComlete' = FALSE
    /\ dataMillis' = InitMillis
    /\ cnt' = 0
    /\ rx' = <<>>
    /\ wire' = <<>>
    /\ tx' = <<>>
    /\ now' = LoopStart
    /\ bursts' = 0
    /\ calls' = 0
    /\ ev' = [EvNone("Fault") EXCEPT !.ub = TRUE]

\* loop() in state ACSM_IDLE
LoopIdle ==
    /\ ac_state = ACSM_IDLE
    /\ \E g \in NullPages :
          \E m \in {poll(doIdleState(Cur("LoopIdle"), now, g), now)} :
             \/ /\ Commit(m)
                /\ UNCHANGED <<now, wire, bursts, calls>>
             \/ /\ m.ev.ub
                /\ Restart

\* loop() in state ACSM_RECEIVING_PACKET
LoopReceiving ==
    /\ ac_state = ACSM_RECEIVING_PACKET
    /\ Commit(poll(doReceivingPacketState(Cur("LoopReceiving"), now), now))
    /\ UNCHANGED <<now, wire, bursts, calls>>

\* loop() in state ACSM_PARSING_PACKET
LoopParsing ==
    /\ ac_state = ACSM_PARSING_PACKET
    /\ \E g \in NullPages :
          \E m \in {poll(doParsingPacket(Cur("LoopParsing"), now, g), now)} :
             \/ /\ Commit(m)
                /\ UNCHANGED <<now, wire, bursts, calls>>
             \/ /\ m.ev.ub
                /\ Restart

\* loop() in state ACSM_SENDING_PACKET
LoopSending ==
    /\ ac_state = ACSM_SENDING_PACKET
    /\ Commit(poll(doSendingPacketState(Cur("LoopSending")), now))
    /\ UNCHANGED <<now, wire, bursts, calls>>

\* the unit sends: a whole frame, the head of a frame, or the rest of the
\* frame whose head it sent before
Arrive ==
    /\ Len(rx) <= MaxBacklog
    /\ \/ /\ wire # <<>>
          /\ rx' = rx \o wire
          /\ wire' = <<>>
          /\ bursts' = bursts
       \/ /\ wire = <<>>
          /\ bursts < MaxBursts
          /\ bursts' = bursts + 1
          /\ \/ \E f \in Frames(tx) :
                   /\ rx' = rx \o f
                   /\ wire' = <<>>
             \/ \E f \in SplitFrames :
                   /\ SplitAt < Len(f)
                   /\ rx' = rx \o SubSeq(f, 1, SplitAt)
                   /\ wire' = SubSeq(f, SplitAt + 1, Len(f))
    /\ ev' = EvNone("Arrive")
    /\ UNCHANGED <<ac_state, inPacket, outPacket, sequence, sequence_current_step,
                   current_ac_state, startupSequenceComlete, dataMillis, cnt, tx,
                   now, calls>>

\* millis() moves on between two ticks
Advance ==
    /\ now + ClockStep <= MaxTime
    /\ now' = now + ClockStep
    /\ ev' = EvNone("Advance")
    /\ UNCHANGED <<ac_state, inPacket, outPacket, sequence, sequence_current_step,
                   current_ac_state, startupSequenceComlete, dataMillis, cnt, rx,
                   wire, tx, bursts, calls>>

\* control() with a call that carries a command: commandSequence(&cmd)
Control ==
    /\ calls < MaxCalls
    /\ calls' = calls + 1
    /\ \E cmd \in Commands : Commit(commandSequence(Cur("control"), cmd))
    /\ UNCHANGED <<now, wire, bursts>>

Next ==
    \/ LoopIdle
    \/ LoopReceiving
    \/ LoopParsing
    \/ LoopSending
    \/ Arrive
    \/ Advance
    \/ Control

Spec == Init /\ [][Next]_vars

(***************************************************************************)
(* The public sequence loaders, called from outside the component (an      *)
(* ESPHome lambda): the code itself calls only startupSequence and         *)
(* commandSequence.                                                        *)
(***************************************************************************)
AC_POWER_ON == 32
\* the values a caller passes to powerSequence
PowerArgs == {AC_POWER_OFF, AC_POWER_ON, UNTOUCHED}

\* startupSequence(); ev.loaded is the value it returns
StartupSequence ==
    /\ calls < MaxCalls
    /\ calls' = calls + 1
    /\ Commit([startupSequence(Cur("startupSequence")) EXCEPT
                  !.ev.loaded = ~hasSequence(sequence)])
    /\ UNCHANGED <<now, wire, bursts>>

\* getStatusSmall()
GetStatusSmall ==
    /\ calls < MaxCalls
    /\ calls' = calls + 1
    /\ Commit(getStatusSmall(Cur("getStatusSmall")))
    /\ UNCHANGED <<now, wire, bursts>>

\* getStatusBig()
GetStatusBig ==
    /\ calls < MaxCalls
    /\ calls' = calls + 1
    /\ Commit(getStatusBig(Cur("getStatusBig")))
    /\ UNCHANGED <<now, wire, bursts>>

\* powerSequence(pwr)
PowerSequence ==
    /\ calls < MaxCalls
    /\ calls' = calls + 1
    /\ \E pwr \in PowerArgs : Commit(powerSequence(Cur("powerSequence"), pwr))
    /\ UNCHANGED <<now, wire, bursts>>

ApiNext ==
    \/ LoopIdle
    \/ LoopReceiving
    \/ LoopParsing
    \/ LoopSending
    \/ Arrive
    \/ Advance
    \/ Control
    \/ StartupSequence
    \/ GetStatusSmall
    \/ GetStatusBig
    \/ PowerSequence

ApiSpec == Init /\ [][ApiNext]_vars

(***************************************************************************)
(* Fairness: ESPHome calls loop() for ever and millis() keeps counting.    *)
(* Weak fairness of the ticks that leave a non-Idle state is written out   *)
(* as "infinitely often disabled or infinitely often taken"; the enabling  *)
(* condition of a tick is that it changes something.                       *)
(***************************************************************************)
\* a Receiving tick changes nothing when there is no byte, no timeout, no poll
ReceivingTickEnabled ==
    /\ ac_state = ACSM_RECEIVING_PACKET
    /\ \/ rx # <<>>
       \/ ReceiveTimedOut(now, inPacket.msec)
       \/ PollDue(now, dataMillis)
       \/ ev # EvNone("LoopReceiving")

TickTaken == ev'.op \in {"LoopReceiving", "LoopParsing", "LoopSending", "Fault"}

FairSpec ==
    /\ Spec
    /\ WF_vars(Advance)
    /\ ([]<>(~ReceivingTickEnabled)
            \/ []<><<ac_state = ACSM_RECEIVING_PACKET /\ TickTaken>>_vars)
    /\ ([]<>(ac_state # ACSM_PARSING_PACKET)
            \/ []<><<ac_state = ACSM_PARSING_PACKET /\ TickTaken>>_vars)
    /\ ([]<>(ac_state # ACSM_SENDING_PACKET)
            \/ []<><<ac_state = ACSM_SENDING_PACKET /\ TickTaken>>_vars)

(***************************************************************************)
(* The checksum functions on their own: _setCRC16 applied to a header and  *)
(* body held in _outPacket, the frame carried over the line (intact, with  *)
(* one checksum byte changed, or with one body bit flipped) into           *)
(* _inPacket, and _checkCRC applied to it.                                 *)
(***************************************************************************)
\* how many fill patterns the inputs are drawn from (patterns 0 .. MaxFill)
MaxFill == 5

\* byte i of fill pattern k: all zero, all ones, then mixed bytes
FillByte(k, i) ==
    CASE k = 0 -> 0
      [] k = 1 -> 255
      [] OTHER -> (k * 89 + i * 53 + 17) % 256

\* a packet holding a header and len body bytes, no checksum written yet
CrcInput(k, len) ==
    [clearPacket EXCEPT
        !.body = IF len > 0 THEN AC_HEADER_SIZE ELSE NULLPTR,
        !.data = [i \in Indices |->
                    CASE i = 0 -> AC_PACKET_START_BYTE
                      [] i = 6 -> len
                      [] i < AC_HEADER_SIZE + len -> FillByte(k, i)
                      [] OTHER -> 0]]

\* info frames whose words add up to 0x1FFFF (even and odd body length)
CarryInputs ==
    {[clearPacket EXCEPT
         !.body = AC_HEADER_SIZE,
         !.data = ToData(<<AC_PACKET_START_BYTE, 0, AC_PTYPE_INFO, 0, 0, 0,
                           Len(body), 0>> \o body)] :
        body \in {<<255, 255, 58, 0>>, <<255, 255, 59>>}}

CrcInputs ==
    {CrcInput(k, len) : k \in 0 .. MaxFill, len \in 0 .. AC_MAX_BODY_SIZE}
        \cup CarryInputs

\* a frame as the receiver holds it once its last byte is loaded
Received(frame) ==
    [clearPacket EXCEPT
        !.data = ToData(frame),
        !.bytesLoaded = Len(frame),
        !.crc = AC_HEADER_SIZE + frame[7],
        !.body = IF frame[7] > 0 THEN AC_HEADER_SIZE ELSE NULLPTR]

\* bit b of byte x inverted
FlipBitOf(x, b) == IF (x \div (2 ^ b)) % 2 = 1 THEN x - 2 ^ b ELSE x + 2 ^ b

\* the fields the checksum functions do not touch
CrcFrame ==
    <<ac_state, sequence, sequence_current_step, current_ac_state,
      startupSequenceComlete, dataMillis, cnt, rx, wire, tx, now, bursts, calls>>

CrcInit ==
    /\ ac_state = ACSM_IDLE
    /\ inPacket = clearPacket
    /\ outPacket \in CrcInputs
    /\ sequence = [i \in Slots |-> emptySlot]
    /\ sequence_current_step = 0
    /\ current_ac_state = clearCommand
    /\ startupSequenceComlete = FALSE
    /\ dataMillis = InitMillis
    /\ cnt = 0
    /\ rx = <<>>
    /\ wire = <<>>
    /\ tx = <<>>
    /\ now = LoopStart
    /\ bursts = 0
    /\ calls = 0
    /\ ev = EvNone("input")

\* "_setCRC16(&pack); pack.bytesLoaded = AC_HEADER_SIZE + body_length + 2"
SetCRC ==
    /\ ev.op = "input"
    /\ outPacket' = [setCRC16(outPacket) EXCEPT
                        !.bytesLoaded = AC_HEADER_SIZE + body_length(outPacket) + 2]
    /\ ev' = EvNone("_setCRC16")
    /\ UNCHANGED <<inPacket, CrcFrame>>

\* the frame arrives as it was written
Deliver ==
    /\ ev.op = "_setCRC16"
    /\ inPacket' = Received(Written(outPacket))
    /\ ev' = EvNone("deliver")
    /\ UNCHANGED <<outPacket, CrcFrame>>

\* the frame arrives with one of its two checksum bytes changed
DamageCrc ==
    /\ ev.op = "_setCRC16"
    /\ \E k \in 1 .. 2, v \in 0 .. 255 :
          LET f == Written(outPacket)
              at == AC_HEADER_SIZE + body_length(outPacket) + k
          IN  /\ v # f[at]
              /\ inPacket' = Received([f EXCEPT ![at] = v])
    /\ ev' = EvNone("damageCrc")
    /\ UNCHANGED <<outPacket, CrcFrame>>

\* the frame arrives with one bit of its body inverted
FlipBit ==
    /\ ev.op = "_setCRC16"
    /\ \E i \in 1 .. body_length(outPacket), b \in 0 .. 7 :
          LET f == Written(outPacket)
          IN  inPacket' = Received([f EXCEPT ![AC_HEADER_SIZE + i] = FlipBitOf(@, b)])
    /\ ev' = EvNone("flipBit")
    /\ UNCHANGED <<outPacket, CrcFrame>>

\* _checkCRC(&_inPacket); ev.crc is the value it returns
CheckCRC ==
    /\ ev.op \in {"deliver", "damageCrc", "flipBit"}
    /\ ev.crc = "na"
    /\ ev' = [ev EXCEPT !.crc = IF checkCRC(inPacket) THEN "ok" ELSE "fail"]
    /\ inPacket' = [inPacket EXCEPT !.crc = CrcPtr(inPacket)]
    /\ UNCHANGED <<outPacket, CrcFrame>>

CrcNext ==
    \/ SetCRC
    \/ Deliver
    \/ DamageCrc
    \/ FlipBit
    \/ CheckCRC

CrcSpec == CrcInit /\ [][CrcNext]_vars

(***************************************************************************)
(* The set-params encoder and the small-status decoder on their own: the   *)
(* request-set-command step runs _fillSetCommand on a Command held in its  *)
(* sequence slot, over an AC State; the small-status decoder is then       *)
(* applied to the 15-byte body the encoder produced.                       *)
(***************************************************************************)
\* the real values of each enumeration (all but X_UNTOUCHED)
Legal ==
    [power |-> {0, 32}, clean |-> {0, 4}, health |-> {0, 2},
     mode |-> {0, 32, 64, 128, 192}, sleep |-> {0, 4}, iFeel |-> {0, 8},
     louver_v |-> {0, 7}, louver_h |-> {0, 224},
     fanSpeed |-> {32, 64, 96, 160}, fanTurbo |-> {0, 64}, fanMute |-> {0, 128},
     display |-> {0, 16}, mildew |-> {0, 8}]

\* what a Command may hold in an enumerated field
Opt(f) == Legal[f] \cup {UNTOUCHED}

\* target temperatures in tenths: -5.0, -4.5 .. (MaxTempStep * 0.5 - 5.0)
MaxTempStep == 90
CodecTemps == {5 * k - 50 : k \in 0 .. MaxTempStep}

\* a Command with the fields of f set and every other field untouched
CmdWith(f) ==
    [k \in DOMAIN clearCommand |-> IF k \in DOMAIN f THEN f[k] ELSE clearCommand[k]]

\* Commands: for each body byte, every combination of the fields encoded in
\* it; two Commands that set every field
CodecCommands ==
    {CmdWith([temp_target |-> t, temp_target_matter |-> TRUE, louver_v |-> v]) :
        t \in CodecTemps, v \in Opt("louver_v")}
    \cup {CmdWith([louver_h |-> h, louver_v |-> v]) :
            h \in Opt("louver_h"), v \in Opt("louver_v")}
    \cup {CmdWith([fanSpeed |-> s, fanTurbo |-> t, fanMute |-> m]) :
            s \in Opt("fanSpeed"), t \in Opt("fanTurbo"), m \in Opt("fanMute")}
    \cup {CmdWith([mode |-> m, sleep |-> s, iFeel |-> i]) :
            m \in Opt("mode"), s \in Opt("sleep"), i \in Opt("iFeel")}
    \cup {CmdWith([power |-> p, clean |-> c, health |-> h]) :
            p \in Opt("power"), c \in Opt("clean"), h \in Opt("health")}
    \cup {CmdWith([display |-> d, mildew |-> m]) :
            d \in Opt("display"), m \in Opt("mildew")}
    \cup {[power |-> 32, temp_target |-> 215, temp_target_matter |-> TRUE,
           temp_ambient |-> 0, temp_outdoor |-> 0, clean |-> 4, health |-> 2,
           health_status |-> UNTOUCHED, mode |-> 128, sleep |-> 4, iFeel |-> 8,
           louver_h |-> 224, louver_v |-> 7, fanSpeed |-> 160, fanTurbo |-> 64,
           fanMute |-> 128, display |-> 16, mildew |-> 8],
          [power |-> 0, temp_target |-> 180, temp_target_matter |-> TRUE,
           temp_ambient |-> 0, temp_outdoor |-> 0, clean |-> 0, health |-> 0,
           health_status |-> UNTOUCHED, mode |-> 0, sleep |-> 0, iFeel |-> 0,
           louver_h |-> 0, louver_v |-> 0, fanSpeed |-> 32, fanTurbo |-> 0,
           fanMute |-> 0, display |-> 0, mildew |-> 0]}

\* bodies of small-status frames: 27.5 cooling, 12.0, every field at its
\* highest value (39.5), every field zero (8.0)
SmallBodies ==
    {<<1, AC_CMD_STATUS_SMALL, 159, 224, 128, 160, 0, 32, 0, 0, 32, 0, 0, 0, 0>>,
     <<1, AC_CMD_STATUS_SMALL, 39, 224, 0, 160, 0, 32, 0, 0, 32, 0, 0, 0, 0>>,
     <<1, AC_CMD_STATUS_SMALL, 255, 224, 191, 160, 192, 204, 0, 0, 39, 0, 24, 0, 5>>,
     <<1, AC_CMD_STATUS_SMALL, 0, 0, 0, 0, 0, 0, 0, 0, 0, 0, 0, 0, 0>>}

\* a body as the decoder indexes it (from 0)
BodyOf(s) == [i \in BodyIndices |-> IF i < Len(s) THEN s[i + 1] ELSE 0]

\* the AC State after initAC, and after each of the bodies was decoded
CodecStates ==
    {clearCommand} \cup {DecodeSmall(clearCommand, BodyOf(s)) : s \in SmallBodies}

\* the object when the request-set-command step of a command sequence is due
CodecInit ==
    /\ ac_state = ACSM_IDLE
    /\ inPacket = clearPacket
    /\ outPacket = clearOutPacket
    /\ \E cmd \in CodecCommands :
          sequence = CommandSteps([i \in Slots |-> emptySlot], 0, cmd)
    /\ sequence_current_step = 2
    /\ current_ac_state \in CodecStates
    /\ startupSequenceComlete = FALSE
    /\ dataMillis = InitMillis
    /\ cnt = 0
    /\ rx = <<>>
    /\ wire = <<>>
    /\ tx = <<>>
    /\ now = LoopStart
    /\ bursts = 0
    /\ calls = 0
    /\ ev = EvNone("input")

\* sq_requestDoCommand; ev.cmd and ev.state are the Command and the AC State
\* it was called with
Encode ==
    /\ ev.op = "input"
    /\ Commit([sq_requestDoCommand(Cur("sq_requestDoCommand"), now) EXCEPT
                  !.ev.cmd = sequence[sequence_current_step].cmd,
                  !.ev.state = current_ac_state])
    /\ UNCHANGED <<now, wire, bursts, calls>>

\* the small-status decoder applied to the body the encoder produced
Decode ==
    /\ ev.op = "sq_requestDoCommand"
    /\ current_ac_state' = DecodeSmall(current_ac_state, BodyView(outPacket, ZeroData))
    /\ ev' = [ev EXCEPT !.op = "decode", !.decoded = TRUE]
    /\ UNCHANGED <<ac_state, inPacket, outPacket, sequence, sequence_current_step,
                   startupSequenceComlete, dataMillis, cnt, rx, wire, tx, now,
                   bursts, calls>>

CodecNext ==
    \/ Encode
    \/ Decode

CodecSpec == CodecInit /\ [][CodecNext]_vars

(***************************************************************************)
(* The unit repeating itself: it sends a frame and, some time later, the   *)
(* same frame once more (a status that has not changed, the next ping).    *)
(* wire holds the repeat until it is sent; frames arrive whole.            *)
(***************************************************************************)
\* periodic status, ambient 23.5, outdoor byte 64
FramePeriodic ==
    Frame(AC_PTYPE_INFO,
          <<1, AC_CMD_STATUS_PERIODIC, 0, 0, 0, 0, 0, 55, 0, 64, 0, 0,
            0, 0, 0, 0, 0, 0, 0, 0, 0, 0, 0, 5>>)

\* the frames the unit is seen to repeat
RepeatFrames ==
    {FramePing, FrameSmall, FrameSmallCold, FrameBig, FramePeriodic, FrameInfoEmpty}

\* the unit sends a frame for the first time, or sends it again
Repeat ==
    /\ rx = <<>>
    /\ \/ /\ bursts = 0
          /\ wire = <<>>
          /\ bursts' = 1
          /\ \E f \in RepeatFrames :
                /\ rx' = f
                /\ wire' = f
       \/ /\ wire # <<>>
          /\ rx' = wire
          /\ wire' = <<>>
          /\ bursts' = bursts
    /\ ev' = EvNone("Repeat")
    /\ UNCHANGED <<ac_state, inPacket, outPacket, sequence, sequence_current_step,
                   current_ac_state, startupSequenceComlete, dataMillis, cnt, tx,
                   now, calls>>

RepeatNext ==
    \/ LoopIdle
    \/ LoopReceiving
    \/ LoopParsing
    \/ LoopSending
    \/ Repeat
    \/ Advance
    \/ Control

RepeatSpec == Init /\ [][RepeatNext]_vars

(***************************************************************************)
(* The serial line byte by byte: the unit sends two frames back to back    *)
(* and the UART hands them to loop() in chunks of any size, while millis() *)
(* counts in steps shorter than the packet timeout.                        *)
(***************************************************************************)
\* the frames the unit sends back to back
ChunkFrames == {FramePing, FrameSmall, FrameBig, FrameCmd, FrameInfoEmpty}

\* what the unit is about to put on the line: a frame, and a ping after it
Streams == {f \o FramePing : f \in ChunkFrames}

\* millis() between two ticks of a reception, and how long it is followed
ReceiveStep == 75
MaxWait == 225

ChunkInit ==
    /\ ac_state = ACSM_IDLE
    /\ inPacket = clearPacket
    /\ outPacket = clearOutPacket
    /\ sequence = [i \in Slots |-> emptySlot]
    /\ sequence_current_step = 0
    /\ current_ac_state = clearCommand
    /\ startupSequenceComlete = FALSE
    /\ dataMillis = InitMillis
    /\ cnt = 0
    /\ rx = <<>>
    /\ wire \in Streams
    /\ tx = <<>>
    /\ now = LoopStart
    /\ bursts = 0
    /\ calls = 0
    /\ ev = EvNone("initAC")

\* the next k bytes of the line reach the UART
Chunk ==
    /\ Len(rx) <= MaxBacklog
    /\ \E k \in 1 .. Len(wire) :
          /\ rx' = rx \o SubSeq(wire, 1, k)
          /\ wire' = SubSeq(wire, k + 1, Len(wire))
    /\ ev' = EvNone("Chunk")
    /\ UNCHANGED <<ac_state, inPacket, outPacket, sequence, sequence_current_step,
                   current_ac_state, startupSequenceComlete, dataMillis, cnt, tx,
                   now, bursts, calls>>

\* millis() moves on by less than the packet timeout
Wait ==
    /\ now + ReceiveStep <= LoopStart + MaxWait
    /\ now' = now + ReceiveStep
    /\ ev' = EvNone("Wait")
    /\ UNCHANGED <<ac_state, inPacket, outPacket, sequence, sequence_current_step,
                   current_ac_state, startupSequenceComlete, dataMillis, cnt, rx,
                   wire, tx, bursts, calls>>

ChunkNext ==
    \/ LoopIdle
    \/ LoopReceiving
    \/ LoopParsing
    \/ LoopSending
    \/ Chunk
    \/ Wait

ChunkSpec == ChunkInit /\ [][ChunkNext]_vars

(***************************************************************************)
(* A sequence running to its end: the object with a sequence just loaded   *)
(* (by the periodic request, or by control()), the status request not due  *)
(* again while the clock of the model runs, and no further call that loads *)
(* a sequence.  loop() runs far more often than once in ClockStep          *)
(* milliseconds: the clock is seen to move only between ticks that find    *)
(* nothing to do.                                                          *)
(***************************************************************************)
\* how long the clock is followed after the sequence was loaded
SeqHorizon == 1500

\* the sequences a loader leaves
SeqLoads ==
    {StartupSteps}
        \cup {CommandSteps([i \in Slots |-> emptySlot], 0, cmd) : cmd \in Commands}

SeqInit ==
    /\ ac_state = ACSM_IDLE
    /\ inPacket = clearPacket
    /\ outPacket = clearOutPacket
    /\ sequence \in SeqLoads
    /\ sequence_current_step = 0
    /\ current_ac_state = clearCommand
    /\ startupSequenceComlete = TRUE
    /\ dataMillis = LoopStart
    /\ cnt = 1
    /\ rx = <<>>
    /\ wire = <<>>
    /\ tx = <<>>
    /\ now = LoopStart
    /\ bursts = 0
    /\ calls = 0
    /\ ev = EvNone("startupSequence")

\* what the unit may send while a sequence runs: the status asked for, the
\* echo of a command, a ping, a damaged frame, noise
SeqFrames(sent) ==
    {FramePing, FrameSmall, FrameBig, FrameEcho(sent), FrameDamaged, Noise}

\* the unit sends a frame
Respond ==
    /\ Len(rx) <= MaxBacklog
    /\ bursts < MaxBursts
    /\ bursts' = bursts + 1
    /\ \E f \in SeqFrames(tx) : rx' = rx \o f
    /\ ev' = EvNone("Respond")
    /\ UNCHANGED <<ac_state, inPacket, outPacket, sequence, sequence_current_step,
                   current_ac_state, startupSequenceComlete, dataMillis, cnt, wire,
                   tx, now, calls>>

\* an Idle tick is certain to change something: it reads or opens a
\* reception, hands over to the sender, or the current step of the sequence
\* is stamped, runs out of time, is no operation, or builds its frame
IdleTickActs ==
    /\ ac_state = ACSM_IDLE
    /\ \/ rx # <<>>
       \/ outPacket.msec > 0
       \/ /\ hasSequence(sequence)
          /\ \/ sequence_current_step >= AC_SEQUENCE_MAX_LEN
             \/ sequence[sequence_current_step].item_type # AC_SIT_FUNC
             \/ sequence[sequence_current_step].func = "nullptr"
             \/ sequence[sequence_current_step].msec = 0
             \/ StepTimedOut(now, sequence[sequence_current_step].msec,
                             EffectiveTimeout(sequence[sequence_current_step].timeout))
             \/ /\ sequence[sequence_current_step].func
                      \in {"sq_requestSmallStatus", "sq_requestBigStatus",
                           "sq_requestDoCommand"}
                /\ outPacket.bytesLoaded = 0

\* millis() moves on while loop() finds nothing to do
SeqTick ==
    /\ ac_state = ACSM_IDLE
    /\ ~IdleTickActs
    /\ now + ClockStep <= LoopStart + SeqHorizon
    /\ now' = now + ClockStep
    /\ ev' = EvNone("SeqTick")
    /\ UNCHANGED <<ac_state, inPacket, outPacket, sequence, sequence_current_step,
                   current_ac_state, startupSequenceComlete, dataMillis, cnt, rx,
                   wire, tx, bursts, calls>>

SeqNext ==
    \/ LoopIdle
    \/ LoopReceiving
    \/ LoopParsing
    \/ LoopSending
    \/ Respond
    \/ SeqTick

\* ESPHome calls loop() for ever and millis() keeps counting
SeqFairSpec ==
    /\ SeqInit /\ [][SeqNext]_vars
    /\ WF_vars(SeqTick)
    /\ ([]<>(~IdleTickActs)
            \/ []<><<ac_state = ACSM_IDLE /\ ev'.op \in {"LoopIdle", "Fault"}>>_vars)
    /\ ([]<>(~ReceivingTickEnabled)
            \/ []<><<ac_state = ACSM_RECEIVING_PACKET /\ TickTaken>>_vars)
    /\ ([]<>(ac_state # ACSM_PARSING_PACKET)
            \/ []<><<ac_state = ACSM_PARSING_PACKET /\ TickTaken>>_vars)
    /\ ([]<>(ac_state # ACSM_SENDING_PACKET)
            \/ []<><<ac_state = ACSM_SENDING_PACKET /\ TickTaken>>_vars)

(***************************************************************************)
(* The small status decoder on every value of the temperature byte: the    *)
(* unit sends one small status frame and loop() receives and parses it.    *)
(***************************************************************************)
\* small status frames with every value of body byte 2 and body byte 4 at
\* both ends of each half of its range; info frames that carry the small
\* status code in a body shorter than the small status layout, or no body
DecodeFrames ==
    {Frame(AC_PTYPE_INFO,
           <<1, AC_CMD_STATUS_SMALL, b2, 224, b4, 160, 0, 32, 0, 0, 32, 0, 0, 0, 0>>) :
        b2 \in 0 .. 255, b4 \in {0, 1, 127, 128, 255}}
      \cup {Frame(AC_PTYPE_INFO, <<1, AC_CMD_STATUS_SMALL>>),
            Frame(AC_PTYPE_INFO, <<1, AC_CMD_STATUS_SMALL, 159, 224>>),
            FrameInfoEmpty}

\* the object after initAC(), one frame waiting in the UART
DecodeInit ==
    /\ ac_state = ACSM_IDLE
    /\ inPacket = clearPacket
    /\ outPacket = clearOutPacket
    /\ sequence = [i \in Slots |-> emptySlot]
    /\ sequence_current_step = 0
    /\ current_ac_state = clearCommand
    /\ startupSequenceComlete = FALSE
    /\ dataMillis = InitMillis
    /\ cnt = 0
    /\ rx \in DecodeFrames
    /\ wire = <<>>
    /\ tx = <<>>
    /\ now = LoopStart
    /\ bursts = 1
    /\ calls = 0
    /\ ev = EvNone("initAC")

DecodeNext ==
    \/ LoopIdle
    \/ LoopReceiving
    \/ LoopParsing

DecodeSpec == DecodeInit /\ [][DecodeNext]_vars

(***************************************************************************)
(* A user command while a transaction runs: control() is called between    *)
(* two calls of loop(), with the cursor of the sequence in flight at any   *)
(* position, and the unit answers what it is asked.                        *)
(***************************************************************************)
\* frames the unit sends in the course of one command transaction
MaxAnswers == 3

\* the unit sends a frame
Answer ==
    /\ Len(rx) <= MaxBacklog
    /\ bursts < MaxAnswers
    /\ bursts' = bursts + 1
    /\ \E f \in SeqFrames(tx) : rx' = rx \o f
    /\ ev' = EvNone("Answer")
    /\ UNCHANGED <<ac_state, inPacket, outPacket, sequence, sequence_current_step,
                   current_ac_state, startupSequenceComlete, dataMillis, cnt, wire,
                   tx, now, calls>>

CommandNext ==
    \/ LoopIdle
    \/ LoopReceiving
    \/ LoopParsing
    \/ LoopSending
    \/ Answer
    \/ SeqTick
    \/ Control

CommandSpec == SeqInit /\ [][CommandNext]_vars

(***************************************************************************)
(* Properties                                                              *)
(***************************************************************************)
\* the stored checksum bytes of a loaded packet equal the checksum of its
\* header and body
StoredCrcMatches(p) ==
    /\ p.bytesLoaded >= AC_HEADER_SIZE
    /\ p.data[AC_HEADER_SIZE + p.data[6]]
          = CRC16(p.data, AC_HEADER_SIZE + p.data[6]) \div 256
    /\ p.data[AC_HEADER_SIZE + p.data[6] + 1]
          = CRC16(p.data, AC_HEADER_SIZE + p.data[6]) % 256

\* a tick of loop() has just run in link state st (a tick that traps shows as
\* the restart it causes)
TickIn(st) ==
    /\ ac_state = st
    /\ ev'.op \in {"LoopIdle", "LoopReceiving", "LoopParsing", "LoopSending", "Fault"}

SixTransitions ==
    {<<ACSM_IDLE, ACSM_RECEIVING_PACKET>>, <<ACSM_IDLE, ACSM_SENDING_PACKET>>,
     <<ACSM_RECEIVING_PACKET, ACSM_PARSING_PACKET>>,
     <<ACSM_RECEIVING_PACKET, ACSM_IDLE>>,
     <<ACSM_PARSING_PACKET, ACSM_IDLE>>, <<ACSM_SENDING_PACKET, ACSM_IDLE>>}

ValidPing(p) == StoredCrcMatches(p) /\ p.data[2] = AC_PTYPE_PING

\* C1 as stated: every Parsing tick leaves the link in Idle, and the link
\* only ever moves along the six listed transitions.
C1_AsStated ==
    [][/\ TickIn(ACSM_PARSING_PACKET) => ac_state' = ACSM_IDLE
       /\ ac_state' # ac_state => <<ac_state, ac_state'>> \in SixTransitions]_vars

\* C1 (amended): a Parsing tick leaves the link in Idle, except that the tick
\* that parses a checksum-valid ping leaves it in Sending; the link moves only
\* along the six listed transitions and Parsing -> Sending.
C1_ParsingLeaves ==
    [][/\ TickIn(ACSM_PARSING_PACKET) =>
             ac_state' = (IF ValidPing(inPacket) THEN ACSM_SENDING_PACKET
                          ELSE ACSM_IDLE)
       /\ ac_state' # ac_state =>
             <<ac_state, ac_state'>> \in
                 SixTransitions \cup {<<ACSM_PARSING_PACKET, ACSM_SENDING_PACKET>>}]_vars

\* a Parsing tick has handled a valid ping and handed over to the sender
C1_Witness ==
    /\ ev.op = "LoopParsing"
    /\ ev.ptype = AC_PTYPE_PING
    /\ ac_state = ACSM_SENDING_PACKET

\* a Parsing tick has handled a frame that is neither ping, command nor info
C1_WitnessOther ==
    /\ ev.op = "LoopParsing"
    /\ ev.ptype = AC_PTYPE_INIT
    /\ ac_state = ACSM_IDLE

\* C2: the link never gets stuck.  While ticks keep running and the clock
\* can still advance, every state in which the link is Receiving, Parsing or
\* Sending is followed by a state in which it is Idle.
C2_BackToIdle ==
    ((\/ ac_state \in {ACSM_PARSING_PACKET, ACSM_SENDING_PACKET}
      \/ (ac_state = ACSM_RECEIVING_PACKET /\ now + ClockStep <= MaxTime))
        ~> (ac_state = ACSM_IDLE))

\* a Receiving tick gave up on a frame whose rest never came
C2_Witness ==
    /\ ev.op = "LoopReceiving"
    /\ ac_state = ACSM_IDLE
    /\ inPacket = clearPacket
    /\ wire # <<>>

\* C3 as stated: whenever the sender writes a frame, no incoming byte is
\* available at that moment.
C3_AsStated == ev.wrote => ev.pending = 0

\* C3 (amended): a frame is written only by a Sending tick; an Idle tick hands
\* over to the sender only when it finds no incoming byte available; the
\* Sending tick itself does not look at the incoming stream.
C3_HalfDuplex ==
    [][/\ ev'.wrote => TickIn(ACSM_SENDING_PACKET)
       /\ (ac_state = ACSM_IDLE /\ ac_state' = ACSM_SENDING_PACKET) => rx = <<>>
       /\ TickIn(ACSM_SENDING_PACKET) => rx' = rx]_vars

\* the sender wrote a frame while incoming bytes were waiting
C3_Witness == ev.wrote /\ ev.pending > 0 /\ ac_state = ACSM_IDLE

\* C4: decoding changes the AC State only in a Parsing tick whose
\* incoming buffer is complete and whose checksum bytes verify; apart from
\* decoding, only the set-params builder and a restart write the AC State.
C4_DecodeOnlyValid ==
    [][/\ ev'.decoded =>
             /\ TickIn(ACSM_PARSING_PACKET)
             /\ inPacket.bytesLoaded = AC_HEADER_SIZE + inPacket.data[6] + 2
             /\ StoredCrcMatches(inPacket)
       /\ current_ac_state' # current_ac_state =>
             ev'.decoded \/ ev'.built \/ ev'.op = "Fault"]_vars

\* a Parsing tick has decoded a small status frame into the AC State
C4_Witness ==
    /\ ev.op = "LoopParsing"
    /\ ev.decoded
    /\ current_ac_state.temp_target = 275

\* a Parsing tick that finds the checksum wrong
BadCrcTick == TickIn(ACSM_PARSING_PACKET) /\ ~StoredCrcMatches(inPacket)

\* C5 as stated: a checksum failure discards the incoming buffer, returns
\* to Idle and leaves the AC State, the outgoing buffer, every sequence slot and
\* the cursor unchanged, with no notification.
C5_AsStated ==
    [][BadCrcTick =>
          /\ inPacket' = clearPacket
          /\ ac_state' = ACSM_IDLE
          /\ current_ac_state' = current_ac_state
          /\ outPacket' = outPacket
          /\ sequence' = sequence
          /\ sequence_current_step' = sequence_current_step
          /\ ~ev'.notified]_vars

\* C5 (amended): as stated, except that the periodic status request at the
\* end of the same tick loads the startup sequence when it is due and no
\* sequence is in flight.
C5_BadCrcDiscards ==
    [][BadCrcTick =>
          /\ inPacket' = clearPacket
          /\ ac_state' = ACSM_IDLE
          /\ current_ac_state' = current_ac_state
          /\ outPacket' = outPacket
          /\ sequence_current_step' = sequence_current_step
          /\ ~ev'.notified
          /\ \/ sequence' = sequence
             \/ /\ now - dataMillis > AC_STATES_REQUEST_INTERVAL
                /\ sequence[0].item_type = AC_SIT_NONE
                /\ sequence' = StartupSteps]_vars

\* a Parsing tick has rejected a damaged frame while a sequence was in flight
C5_Witness ==
    /\ ev.op = "LoopParsing"
    /\ ev.crc = "fail"
    /\ sequence[0].item_type # AC_SIT_NONE

\* C6 as stated: building the set-params frame (the request-set-command
\* step) leaves every field of the AC State unchanged.
C6_AsStated ==
    [][(ev'.built /\ ~ev'.decoded) => current_ac_state' = current_ac_state]_vars

\* the sequence _doSequence works on in a tick: the one in flight or, in the
\* tick that parses the first ping, the startup sequence loaded just before
SeqSeen == IF sequence[0].item_type = AC_SIT_NONE THEN StartupSteps ELSE sequence

NoSequence == [i \in Slots |-> emptySlot]

\* the link state a tick selects, apart from anything the sequence engine does
LinkSelects ==
    CASE ac_state = ACSM_PARSING_PACKET ->
            IF ValidPing(inPacket) THEN ACSM_SENDING_PACKET ELSE ACSM_IDLE
      [] ac_state = ACSM_IDLE /\ rx = <<>> ->
            IF outPacket' = outPacket /\ outPacket.msec = 0
            THEN ACSM_IDLE ELSE ACSM_SENDING_PACKET
      [] ac_state = ACSM_IDLE /\ rx # <<>> ->
            IF Head(rx) = AC_PACKET_START_BYTE
            THEN ACSM_RECEIVING_PACKET ELSE ACSM_IDLE
      [] OTHER -> ACSM_IDLE

\* C7 as stated (last clause): the tick in which a step times out ends with
\* the link in Idle.
C7_AsStated == ev.timedOut => ac_state = ACSM_IDLE

\* C7 (amended): a function step is stamped with the clock on its first
\* execution and its timeout of 0 is read as 500; the step is aborted exactly
\* at the calls at which now - start >= timeout, and then the whole sequence
\* is cleared without the step's operation being invoked; before that the
\* operation is invoked.  The abort does not change the link state: the tick
\* ends in the state its link handler selects (Idle, Receiving or Sending),
\* and the periodic status request of the same tick may load the startup
\* sequence again.
C7_StepTimeout ==
    [][ev'.callStep >= 0 =>
          /\ ev'.callStep = sequence_current_step
          /\ ev'.callStart = (IF SeqSeen[ev'.callStep].msec = 0
                              THEN now ELSE SeqSeen[ev'.callStep].msec)
          /\ ev'.callTimeout = (IF SeqSeen[ev'.callStep].timeout = 0
                                THEN AC_SEQUENCE_DEFAULT_TIMEOUT
                                ELSE SeqSeen[ev'.callStep].timeout)
          /\ ev'.timedOut <=> (now - ev'.callStart >= ev'.callTimeout)
          /\ ev'.timedOut =>
                /\ ev'.func = "none"
                /\ sequence_current_step' = 0
                /\ \/ sequence' = NoSequence
                   \/ ev'.polled /\ sequence' = StartupSteps
                /\ ac_state' = LinkSelects
                /\ outPacket' = outPacket \/ ValidPing(inPacket)
          /\ ~ev'.timedOut =>
                /\ ev'.func = SeqSeen[ev'.callStep].func
                /\ ~ev'.stepFailed =>
                      /\ sequence'[ev'.callStep].msec = ev'.callStart
                      /\ sequence'[ev'.callStep].timeout = ev'.callTimeout]_vars

\* a confirm step timed out in the very tick that parsed a status frame
C7_Witness ==
    /\ ev.timedOut
    /\ ev.op = "LoopParsing"
    /\ ev.decoded

\* a step timed out in a tick that ends outside Idle
C7_WitnessNotIdle == ev.timedOut /\ ac_state # ACSM_IDLE

\* the current step of the sequence in flight holds an operation and has not
\* timed out at the present clock
StepPending ==
    /\ sequence[0].item_type # AC_SIT_NONE
    /\ sequence_current_step < AC_SEQUENCE_MAX_LEN
    /\ sequence[sequence_current_step].item_type = AC_SIT_FUNC
    /\ sequence[sequence_current_step].func # "nullptr"
    /\ \/ sequence[sequence_current_step].msec = 0
       \/ now - sequence[sequence_current_step].msec
             < (IF sequence[sequence_current_step].timeout = 0
                THEN AC_SEQUENCE_DEFAULT_TIMEOUT
                ELSE sequence[sequence_current_step].timeout)

\* C8: ping neutrality.  When a checksum-valid ping is parsed while a
\* sequence is in flight whose current step (request or confirm) has not timed
\* out, the cursor does not move and no slot loses or changes its operation.
C8_PingNeutral ==
    [][(TickIn(ACSM_PARSING_PACKET) /\ ValidPing(inPacket) /\ StepPending) =>
          /\ sequence_current_step' = sequence_current_step
          /\ \A i \in Slots :
                /\ sequence'[i].item_type = sequence[i].item_type
                /\ sequence'[i].func = sequence[i].func
                /\ sequence'[i].packet = sequence[i].packet
                /\ sequence'[i].packet_type = sequence[i].packet_type]_vars

\* a ping has been parsed while a confirm step was waiting for its response
C8_Witness ==
    /\ ev.op = "LoopParsing"
    /\ ev.ptype = AC_PTYPE_PING
    /\ ev.func \in {"sq_controlSmallStatus", "sq_controlBigStatus",
                    "sq_controlDoCommand"}
    /\ sequence[0].item_type # AC_SIT_NONE

\* the body bytes of a loaded packet, as far as the packet declares them
DeclaredBody(p) ==
    [i \in 0 .. (AC_MAX_BODY_SIZE - 1) |->
        IF i < p.data[6] THEN p.data[AC_HEADER_SIZE + i] ELSE 0]

\* what decoding an info frame yields when only declared body bytes are read
NormalDecode(state, p) ==
    IF p.data[6] < 2 THEN state
    ELSE CASE DeclaredBody(p)[1] = AC_CMD_STATUS_SMALL ->
                 DecodeSmall(state, DeclaredBody(p))
           [] DeclaredBody(p)[1] \in {AC_CMD_STATUS_BIG, AC_CMD_STATUS_PERIODIC} ->
                 DecodeBig(state, DeclaredBody(p))
           [] OTHER -> state

\* the relevance check of the confirm step func on packet p; prev is the frame
\* stored in the preceding slot
RelevantTo(func, p, prev) ==
    /\ p.data[2] = AC_PTYPE_INFO
    /\ DeclaredBody(p)[0] = 1
    /\ CASE func = "sq_controlSmallStatus" ->
               p.data[6] = 15 /\ DeclaredBody(p)[1] = AC_CMD_STATUS_SMALL
         [] func = "sq_controlBigStatus" ->
               p.data[6] = 24 /\ DeclaredBody(p)[1] = AC_CMD_STATUS_BIG
         [] func = "sq_controlDoCommand" ->
               /\ p.data[6] = 4
               /\ DeclaredBody(p)[1] = AC_CMD_SET_PARAMS
               /\ DeclaredBody(p)[2] = prev.data[AC_HEADER_SIZE + prev.data[6]]
               /\ DeclaredBody(p)[3] = prev.data[AC_HEADER_SIZE + prev.data[6] + 1]
         [] OTHER -> FALSE

\* a Parsing tick on a checksum-valid info frame that the current confirm
\* step finds irrelevant, in a tick in which no periodic status request is due
IrrelevantInfoTick ==
    /\ TickIn(ACSM_PARSING_PACKET)
    /\ StoredCrcMatches(inPacket)
    /\ inPacket.data[2] = AC_PTYPE_INFO
    /\ StepPending
    /\ sequence_current_step > 0
    /\ sequence[sequence_current_step].func
          \in {"sq_controlSmallStatus", "sq_controlBigStatus", "sq_controlDoCommand"}
    /\ ~RelevantTo(sequence[sequence_current_step].func, inPacket,
                   sequence[sequence_current_step - 1].packet)
    /\ now - dataMillis <= AC_STATES_REQUEST_INTERVAL

\* C9 as stated: an irrelevant info frame parsed while a confirm step is
\* current clears the sequence in that tick, leaves the link in Idle and the
\* outgoing buffer unchanged, and the AC State holds the normal decode of the
\* frame.
C9_AsStated ==
    [][IrrelevantInfoTick =>
          /\ sequence' = NoSequence
          /\ sequence_current_step' = 0
          /\ ac_state' = ACSM_IDLE
          /\ outPacket' = outPacket
          /\ current_ac_state' = NormalDecode(current_ac_state, inPacket)]_vars

\* C9 for info frames that declare a body: there the statement holds
C9_WithBody ==
    [][(IrrelevantInfoTick /\ inPacket.data[6] > 0) =>
          /\ sequence' = NoSequence
          /\ sequence_current_step' = 0
          /\ ac_state' = ACSM_IDLE
          /\ outPacket' = outPacket
          /\ current_ac_state' = NormalDecode(current_ac_state, inPacket)]_vars

\* C10 as stated: commandSequence called with a sequence in flight changes
\* no filled slot and not the cursor.
C10_AsStated ==
    [][(ev'.op = "control" /\ sequence[0].item_type # AC_SIT_NONE) =>
          /\ sequence_current_step' = sequence_current_step
          /\ \A i \in Slots :
                sequence[i].item_type # AC_SIT_NONE => sequence'[i] = sequence[i]]_vars

\* the four loaders that refuse to load while a sequence is in flight
GuardedLoaders == {"startupSequence", "getStatusSmall", "getStatusBig", "powerSequence"}

\* exactly the four steps of the startup transaction, nothing after them
FourStartupSlots(seq) ==
    /\ seq[0].item_type = AC_SIT_FUNC /\ seq[0].func = "sq_requestSmallStatus"
    /\ seq[1].item_type = AC_SIT_FUNC /\ seq[1].func = "sq_controlSmallStatus"
    /\ seq[2].item_type = AC_SIT_FUNC /\ seq[2].func = "sq_requestBigStatus"
    /\ seq[3].item_type = AC_SIT_FUNC /\ seq[3].func = "sq_controlBigStatus"
    /\ \A i \in Slots : i > 3 => seq[i].item_type = AC_SIT_NONE

\* C11: startupSequence, getStatusSmall, getStatusBig and powerSequence called
\* while a sequence is in flight change no slot and not the cursor, and
\* startupSequence then returns false; startupSequence called with no sequence
\* in flight (by a caller, or by the periodic request of loop()) leaves exactly
\* the four startup steps with the cursor at 0 and returns true.
C11_OneInFlight ==
    [][/\ (ev'.op \in GuardedLoaders /\ hasSequence(sequence))
            => /\ sequence' = sequence
               /\ sequence_current_step' = sequence_current_step
               /\ (ev'.op = "startupSequence" => ~ev'.loaded)
       /\ (ev'.op = "startupSequence" /\ ~hasSequence(sequence))
            => /\ FourStartupSlots(sequence')
               /\ sequence_current_step' = 0
               /\ ev'.loaded
       /\ (ev'.polled /\ ev'.loaded)
            => /\ FourStartupSlots(sequence')
               /\ sequence_current_step' = 0]_vars

\* startupSequence was called while a sequence was in flight and refused
C11_Witness ==
    ev.op = "startupSequence" /\ ~ev.loaded /\ hasSequence(sequence)

\* startupSequence was called with no sequence in flight and loaded
C11_WitnessLoaded == ev.op = "startupSequence" /\ ev.loaded

\* powerSequence was called while the startup transaction was in flight
C11_WitnessPower ==
    /\ ev.op = "powerSequence"
    /\ sequence[2].func = "sq_requestBigStatus"

\* the tick parsed a checksum-valid ping frame
PingTick == ev'.op = "LoopParsing" /\ ev'.crc = "ok" /\ ev'.ptype = AC_PTYPE_PING

\* C12 as stated: over a whole run the startup transaction is loaded exactly
\* once, by ping handling; so once ping handling has loaded it, no later step
\* loads it again.
C12_AsStated ==
    [][startupSequenceComlete =>
          /\ ev'.startup # "loaded"
          /\ ~(ev'.polled /\ ev'.loaded)]_vars

\* C12: ping handling calls startupSequence on every checksum-valid ping
\* until one call loads: with no sequence in flight the call loads and sets
\* the completion flag, with a sequence in flight it is refused and the next
\* ping tries again; once the flag is set it stays set for the rest of the run
\* and no later ping loads.  Ping handling so loads at most once per run.  The
\* periodic request of loop() is not bound by the flag: whenever it is due it
\* loads the same four steps.
C12_StartupByPing ==
    [][/\ PingTick =>
            /\ startupSequenceComlete => ev'.startup = "done"
            /\ (~startupSequenceComlete /\ ~hasSequence(sequence))
                    => (ev'.startup = "loaded" /\ startupSequenceComlete')
            /\ (~startupSequenceComlete /\ hasSequence(sequence))
                    => (ev'.startup = "busy" /\ ~startupSequenceComlete')
       /\ ev'.startup # "na" => PingTick
       /\ (startupSequenceComlete /\ ev'.op # "Fault") => startupSequenceComlete'
       /\ (ev'.polled /\ ev'.loaded) => FourStartupSlots(sequence')]_vars

\* the periodic request loads the startup transaction after ping handling
\* has loaded it once
C12_Witness == startupSequenceComlete /\ ev.polled /\ ev.loaded

\* a ping is refused the load because a sequence is in flight
C12_WitnessBusy == ev.startup = "busy"

\* a ping after the load does not load again
C12_WitnessDone == ev.startup = "done"

\* header and body of the pong: BB 00 01 80 01 00 08 00 | 1C 27 00 00 00 00 00 00
PongBytes == <<187, 0, 1, 128, 1, 0, 8, 0, 28, 39, 0, 0, 0, 0, 0, 0>>

\* C13: after a tick that parses a checksum-valid ping the outgoing buffer
\* holds 18 bytes: the pong's header and body as listed, then two checksum
\* bytes that the check applied to incoming frames accepts; the AC State is
\* what it was before the tick.
C13_Pong ==
    [][PingTick =>
          /\ outPacket'.bytesLoaded = 18
          /\ \A i \in 1 .. 16 : outPacket'.data[i - 1] = PongBytes[i]
          /\ checkCRC(outPacket')
          /\ outPacket'.crc = 16
          /\ current_ac_state' = current_ac_state]_vars

\* a ping was parsed and the pong is waiting in the outgoing buffer, with a
\* decoded AC State that it did not touch
C13_Witness ==
    /\ ev.op = "LoopParsing" /\ ev.crc = "ok" /\ ev.ptype = AC_PTYPE_PING
    /\ outPacket.bytesLoaded = 18
    /\ current_ac_state # clearCommand

\* C14: a frame whose checksum was written by _setCRC16 verifies under
\* _checkCRC when it arrives as written, for every body length 0..24; with
\* either checksum byte changed to any other value it does not verify.
C14_RoundTrip ==
    /\ (ev.op = "deliver" /\ ev.crc # "na") => ev.crc = "ok"
    /\ (ev.op = "damageCrc" /\ ev.crc # "na") => ev.crc = "fail"

\* a frame with an odd body length and a changed second checksum byte was
\* checked and refused
C14_Witness ==
    /\ ev.op = "damageCrc" /\ ev.crc = "fail"
    /\ body_length(inPacket) = 23
    /\ inPacket.data[AC_HEADER_SIZE + 23] = outPacket.data[AC_HEADER_SIZE + 23]

\* a frame with the longest body was checked as written and accepted
C14_WitnessIntact ==
    ev.op = "deliver" /\ ev.crc = "ok" /\ body_length(inPacket) = AC_MAX_BODY_SIZE

\* the frame the module wrote last, as a packet
SentPacket == Received(tx)

\* C15 as stated: in every frame the module writes, the first checksum byte
\* is the low byte of the value _CRC16 returns and the second is its high byte.
C15_AsStated ==
    tx # <<>> =>
        LET n == AC_HEADER_SIZE + body_length(SentPacket)
            c == CRC16(SentPacket.data, n)
        IN  SentPacket.data[n] = c % 256 /\ SentPacket.data[n + 1] = c \div 256

\* C15: in every frame the module writes, the first checksum byte (offset
\* 8 + body_length) is the high byte of the 16-bit value _CRC16 returns and
\* the second is its low byte.
C15_HighByteFirst ==
    tx # <<>> =>
        LET n == AC_HEADER_SIZE + body_length(SentPacket)
            c == CRC16(SentPacket.data, n)
        IN  /\ Len(tx) = n + 2
            /\ SentPacket.data[n] = c \div 256
            /\ SentPacket.data[n + 1] = c % 256

\* the pong was written: its checksum 0x1E58 went out as 1E 58
C15_Witness ==
    /\ Len(tx) = 18 /\ tx[3] = AC_PTYPE_PING
    /\ tx[17] = 30 /\ tx[18] = 88

\* a set-params frame was written
C15_WitnessCommand == Len(tx) = 25 /\ tx[10] = AC_CMD_SET_PARAMS

\* the 16-bit word at byte i of the first n bytes, big-endian, a missing low
\* byte read as zero
WordAt(data, i, n) == data[i] * 256 + (IF i + 1 < n THEN data[i + 1] ELSE 0)

RECURSIVE WordSum(_, _, _)
WordSum(data, i, n) ==
    IF i >= n THEN 0 ELSE WordAt(data, i, n) + WordSum(data, i + 2, n)

\* the carry folded into the low 16 bits until the value fits in 16 bits
RECURSIVE FoldUntilFits(_)
FoldUntilFits(x) ==
    IF x < 65536 THEN x ELSE FoldUntilFits((x \div 65536) + (x % 65536))

\* the 16-bit one's complement of the end-around-carry sum
OnesComplementSum(data, n) == 65535 - FoldUntilFits(WordSum(data, 0, n))

\* C16 as stated: for every header+body of 8..32 bytes _CRC16 returns the
\* 16-bit one's complement of the end-around-carry sum of its big-endian
\* words (an odd trailing byte padded with a zero low byte), and the input
\* bytes are not modified.
C16_AsStated ==
    ev.op = "_setCRC16" =>
        LET n == AC_HEADER_SIZE + body_length(outPacket)
        IN  /\ CRC16(outPacket.data, n) = OnesComplementSum(outPacket.data, n)
            /\ outPacket.data[n] * 256 + outPacket.data[n + 1]
                  = OnesComplementSum(outPacket.data, n)

\* what _CRC16 does return: the low 16 bits of the complement of the sum
\* folded once; the same as the one's complement sum unless the one fold
\* itself carries
C16_FoldedOnce ==
    ev.op = "_setCRC16" =>
        LET n == AC_HEADER_SIZE + body_length(outPacket)
            s == WordSum(outPacket.data, 0, n)
            once == (s \div 65536) + (s % 65536)
        IN  /\ CRC16(outPacket.data, n) = 65535 - (once % 65536)
            /\ once < 65536
                  => CRC16(outPacket.data, n) = OnesComplementSum(outPacket.data, n)

\* the checksum of a frame whose single fold carries was written
C16_WitnessCarry ==
    /\ ev.op = "_setCRC16"
    /\ WordSum(outPacket.data, 0, AC_HEADER_SIZE + body_length(outPacket)) = 131071

\* C17: for every frame with body length 1..24 and every bit of its body,
\* the value of _CRC16 over header+body changes when that bit is inverted,
\* and the frame with the inverted bit and the checksum bytes of the
\* original does not verify.
C17_BitFlipDetected ==
    ev.op = "flipBit" =>
        LET n == AC_HEADER_SIZE + body_length(outPacket)
        IN  /\ CRC16(inPacket.data, n) # CRC16(outPacket.data, n)
            /\ inPacket.data[n] = outPacket.data[n]
            /\ inPacket.data[n + 1] = outPacket.data[n + 1]
            /\ ev.crc # "na" => ev.crc = "fail"

\* a frame with an odd body length arrived with a bit of its last body byte
\* inverted, was checked and refused
C17_Witness ==
    /\ ev.op = "flipBit" /\ ev.crc = "fail"
    /\ body_length(inPacket) = 23
    /\ inPacket.data[AC_HEADER_SIZE + 22] # outPacket.data[AC_HEADER_SIZE + 22]

\* a frame whose single fold carries arrived with a bit inverted and was
\* refused
C17_WitnessCarry ==
    /\ ev.op = "flipBit" /\ ev.crc = "fail"
    /\ [outPacket EXCEPT !.crc = NULLPTR, !.bytesLoaded = 0,
                         !.data = [i \in Indices |->
                                     IF i < AC_HEADER_SIZE + body_length(outPacket)
                                     THEN outPacket.data[i] ELSE 0]]
          \in CarryInputs

\* the enumerated fields a Command can set
EnumFields == DOMAIN Legal

\* every explicit field of the Command has a legal value
LegalCommand(c) ==
    /\ \A f \in EnumFields : c[f] \in Opt(f)
    /\ c.temp_target_matter =>
          (c.temp_target >= 160 /\ c.temp_target <= 320 /\ c.temp_target % 5 = 0)

\* C18 as stated: for every Command with legal explicit fields, the
\* small-status decoder applied to the set-params body reads back exactly the
\* explicit field values, the half-degree part of the temperature included.
C18_AsStated ==
    (ev.op = "decode" /\ LegalCommand(ev.cmd)) =>
        /\ \A f \in EnumFields :
              ev.cmd[f] # UNTOUCHED => current_ac_state[f] = ev.cmd[f]
        /\ ev.cmd.temp_target_matter =>
              current_ac_state.temp_target = ev.cmd.temp_target

\* what is read back: every explicit enumerated field, and the target
\* temperature without its half degree; the half degree goes into bit 0 of
\* body byte 4, where a half degree of the AC State stays set as well
C18_WholeDegrees ==
    (ev.op = "decode" /\ LegalCommand(ev.cmd)) =>
        /\ \A f \in EnumFields :
              ev.cmd[f] # UNTOUCHED => current_ac_state[f] = ev.cmd[f]
        /\ ev.cmd.temp_target_matter =>
              /\ current_ac_state.temp_target = 10 * (ev.cmd.temp_target \div 10)
              /\ outPacket.data[AC_HEADER_SIZE + 4] =
                    (IF \/ ev.cmd.temp_target % 10 = 5
                        \/ /\ ev.state.temp_target_matter
                           /\ ClampTemp(ev.state.temp_target) % 10 = 5
                     THEN 1 ELSE 0)

\* a Command asking for 24.5 was encoded and the body decoded
C18_WitnessHalf ==
    ev.op = "decode" /\ ev.cmd.temp_target_matter /\ ev.cmd.temp_target = 245

\* C19 as stated: for every AC State decoded from a small-status frame and
\* every Command, each field the Command leaves untouched (an unset target
\* temperature with a half-degree part included) is read back from the
\* set-params body by the small-status decoder with the value the AC State
\* had before the encoding.
C19_AsStated ==
    (ev.op = "decode" /\ ev.state.temp_target_matter) =>
        /\ \A f \in EnumFields :
              ev.cmd[f] = UNTOUCHED => current_ac_state[f] = ev.state[f]
        /\ ~ev.cmd.temp_target_matter =>
              current_ac_state.temp_target = ev.state.temp_target

\* what is read back for untouched fields: the enumerated fields of the AC
\* State, and its target temperature clamped to 16..32 without its half degree
C19_MergedButTemperature ==
    (ev.op = "decode" /\ ev.state.temp_target_matter) =>
        /\ \A f \in EnumFields :
              ev.cmd[f] = UNTOUCHED => current_ac_state[f] = ev.state[f]
        /\ ~ev.cmd.temp_target_matter =>
              current_ac_state.temp_target
                  = 10 * (ClampTemp(ev.state.temp_target) \div 10)

\* an AC State of 27.5 was encoded under a Command that leaves the
\* temperature untouched, and the body decoded
C19_WitnessHalf ==
    /\ ev.op = "decode"
    /\ ev.state.temp_target_matter /\ ev.state.temp_target = 275
    /\ ~ev.cmd.temp_target_matter

\* the low three bits of body byte 2 that the Command and the AC State ask for
LouverBits(cmd, state) ==
    IF cmd.louver_v # UNTOUCHED THEN cmd.louver_v
    ELSE IF state.louver_v # UNTOUCHED THEN state.louver_v
    ELSE 0

\* C20: for every Command that sets a target temperature, whatever its value,
\* the five high bits of body byte 2 of the set-params frame hold a value in
\* 8..24 (a temperature of 16..32), and the three low bits hold the vertical
\* louver position as if no temperature had been written.
C20_ClampedTemperature ==
    (ev.op = "sq_requestDoCommand" /\ ev.cmd.temp_target_matter) =>
        LET b2 == outPacket.data[AC_HEADER_SIZE + 2]
        IN  /\ b2 \div 8 >= 8
            /\ b2 \div 8 <= 24
            /\ 8 + b2 \div 8 >= AC_MIN_TEMPERATURE
            /\ 8 + b2 \div 8 <= AC_MAX_TEMPERATURE
            /\ b2 % 8 = LouverBits(ev.cmd, ev.state)

\* a Command asking for 40.0 was encoded over an AC State whose vertical
\* louver is off: the field holds 24 and the louver bits are 7
C20_Witness ==
    /\ ev.op = "sq_requestDoCommand"
    /\ ev.cmd.temp_target_matter /\ ev.cmd.temp_target = 400
    /\ ev.cmd.louver_v = UNTOUCHED /\ ev.state.louver_v = 7
    /\ outPacket.data[AC_HEADER_SIZE + 2] = 199

\* a Command asking for -5.0 with the louver swinging: field 8, louver bits 0
C20_WitnessBelow ==
    /\ ev.op = "sq_requestDoCommand"
    /\ ev.cmd.temp_target_matter /\ ev.cmd.temp_target = -50
    /\ ev.cmd.louver_v = 0 /\ ev.state.louver_v = 7
    /\ outPacket.data[AC_HEADER_SIZE + 2] = 64

\* a loaded packet is an info frame that carries a status: its body holds the
\* echo code of a small, big or periodic status
StatusFrame(p) ==
    /\ p.data[2] = AC_PTYPE_INFO
    /\ p.data[6] >= 2
    /\ p.data[AC_HEADER_SIZE + 1]
          \in {AC_CMD_STATUS_SMALL, AC_CMD_STATUS_BIG, AC_CMD_STATUS_PERIODIC}

\* the Parsing tick on the second copy of a repeated status frame: the first
\* copy was parsed before the second was let in, and no other frame was sent
SecondParse ==
    /\ TickIn(ACSM_PARSING_PACKET)
    /\ bursts = 1
    /\ wire = <<>>
    /\ rx = <<>>
    /\ StoredCrcMatches(inPacket)
    /\ StatusFrame(inPacket)

\* the target temperature a loaded small status frame decodes to, in tenths
TargetOf(p) ==
    80 + 10 * (p.data[AC_HEADER_SIZE + 2] \div 8)
       + 5 * (p.data[AC_HEADER_SIZE + 4] \div 128)

\* C21 as stated: decode idempotence.  When the same checksum-valid status
\* frame is parsed twice with no other status frame decoded in between, the
\* second parse fires no state-change notification and leaves the AC State as
\* it was after the first parse.
C21_AsStated ==
    [][SecondParse =>
          /\ ~ev'.notified
          /\ ev'.built \/ current_ac_state' = current_ac_state]_vars

\* C21 where the clamp of the set-params builder has nothing to change: no
\* command was issued, or the frame is no small status, or its target
\* temperature lies within 16..32.  There the statement holds.
C21_UnlessClamped ==
    [][(/\ SecondParse
        /\ \/ calls = 0
           \/ inPacket.data[AC_HEADER_SIZE + 1] # AC_CMD_STATUS_SMALL
           \/ /\ TargetOf(inPacket) >= AC_MIN_TEMPERATURE * 10
              /\ TargetOf(inPacket) <= AC_MAX_TEMPERATURE * 10) =>
          /\ ~ev'.notified
          /\ ev'.built \/ current_ac_state' = current_ac_state]_vars

\* the second copy of a small status frame has been parsed and notified again
C21_WitnessNotified ==
    /\ ev.op = "LoopParsing"
    /\ ev.notified
    /\ bursts = 1
    /\ wire = <<>>
    /\ rx = <<>>
    /\ calls = 1

\* the frames of ChunkFrames whose checksum bytes verify
ValidChunkFrames == {f \in ChunkFrames : StoredCrcMatches(Received(f))}

C22_WitnessSlow ==
    /\ ac_state = ACSM_PARSING_PACKET
    /\ Written(inPacket) = FrameBig
    /\ now = inPacket.msec + 2 * ReceiveStep
    /\ rx = <<>>

\* a tick of loop() has just run (a tick that traps shows as the restart)
AnyTick ==
    ev'.op \in {"LoopIdle", "LoopReceiving", "LoopParsing", "LoopSending", "Fault"}

\* C23: in every single tick the link state changes at most once and the
\* step cursor advances by at most one position or is reset to 0; no tick both
\* reads bytes from the serial line and writes bytes to it.
C23_OneMovePerTick ==
    [][AnyTick =>
          /\ ev'.moves <= 1
          /\ ev'.moves = 0 => ac_state' = ac_state \/ ev'.op = "Fault"
          /\ sequence_current_step'
                \in {sequence_current_step, sequence_current_step + 1, 0}
          /\ ~(ev'.wrote /\ rx' # rx)
          /\ (rx' # rx /\ ev'.op # "Fault") =>
                ac_state \in {ACSM_IDLE, ACSM_RECEIVING_PACKET}]_vars

\* one tick has both moved the link (to Sending, by a ping) and advanced the
\* cursor (the first step of the startup sequence that ping loaded)
C23_Witness ==
    /\ ev.op = "LoopParsing"
    /\ ev.moves = 1
    /\ ac_state = ACSM_SENDING_PACKET
    /\ sequence_current_step = 1

\* a tick has reset the cursor from a later step to 0
C23_WitnessClear ==
    /\ ev.op \in {"LoopIdle", "LoopParsing"}
    /\ ev.timedOut \/ ev.stepFailed
    /\ ev.callStep > 0
    /\ sequence_current_step = 0

\* C24: every sequence terminates.  Once a sequence is in flight and no
\* further loader is invoked, hasSequence() eventually becomes false, with all
\* slots Empty and the cursor at 0, whatever the unit sends or does not send,
\* provided ticks keep running and the clock advances.
C24_Terminates ==
    hasSequence(sequence)
        ~> (/\ ~hasSequence(sequence)
            /\ sequence = NoSequence
            /\ sequence_current_step = 0)

\* the startup sequence has run through all four steps and ended: the big
\* status request went out, its answer was decoded, and no time has passed
C24_WitnessCompleted ==
    /\ sequence = NoSequence
    /\ sequence_current_step = 0
    /\ Len(tx) > AC_HEADER_SIZE
    /\ tx[AC_HEADER_SIZE + 1] = AC_CMD_STATUS_BIG
    /\ current_ac_state.temp_ambient = 225
    /\ now = LoopStart

\* a sequence has ended by the timeout of a confirm step, in silence
C24_WitnessTimeout ==
    /\ sequence = NoSequence
    /\ ev.timedOut
    /\ bursts = 0

\* a sequence has ended by a step that failed on the frame it was shown
C24_WitnessError ==
    /\ sequence = NoSequence
    /\ ev.stepFailed


\* the frame loaded in the incoming buffer is a checksum-valid status info
\* frame and its decode differs from state in a field the decode sets
ChangesState(p, state) ==
    /\ StoredCrcMatches(p)
    /\ StatusFrame(p)
    /\ NormalDecode(state, p) # state

\* C25 as stated: a Parsing tick fires the state-change notification if and
\* only if the frame is a checksum-valid info frame with echo code small
\* status, big status or periodic status and a field decoded from it differs
\* from the AC State before the tick; ping, command, set-params echo, init and
\* unknown frames never fire it.
C25_AsStated ==
    [][TickIn(ACSM_PARSING_PACKET) =>
          (ev'.notified <=> ChangesState(inPacket, current_ac_state))]_vars

\* C25 for frames that declare the body byte the echo code is read from: there
\* the statement holds
C25_WithBody ==
    [][(TickIn(ACSM_PARSING_PACKET) /\ inPacket.data[6] >= 2) =>
          (ev'.notified <=> ChangesState(inPacket, current_ac_state))]_vars

\* an info frame without a body has been parsed and the notification fired
C25_WitnessEmpty ==
    /\ ev.op = "LoopParsing"
    /\ ev.notified
    /\ ev.ub
    /\ ev.ptype = AC_PTYPE_INFO


\* a slot holds the set-params frame its request step built and queued
HoldsSetParams(slot) ==
    /\ slot.func = "sq_requestDoCommand"
    /\ slot.packet_type = AC_SPT_SENT_PACKET
    /\ slot.packet.data[2] = AC_PTYPE_CMD
    /\ slot.packet.data[AC_HEADER_SIZE] = AC_CMD_SET_PARAMS

\* a tick in which the confirm-set-command step is called
ConfirmCommandTick ==
    /\ AnyTick
    /\ ev'.func = "sq_controlDoCommand"

\* C26 as stated: the confirm-set-command step advances the cursor only when
\* the parsed frame is an info frame with body length 4, body bytes 0 and 1
\* equal to 01 01 and body bytes 2 and 3 equal to the checksum bytes of the
\* frame in the preceding slot; and whenever the step runs, the preceding slot
\* holds a set-params frame that was issued in this transaction.
C26_AsStated ==
    [][ConfirmCommandTick =>
          /\ sequence_current_step > 0
          /\ HoldsSetParams(sequence[sequence_current_step - 1])
          /\ sequence_current_step' = sequence_current_step + 1 =>
                RelevantTo("sq_controlDoCommand", inPacket,
                           sequence[sequence_current_step - 1].packet)]_vars

\* C26, the condition to advance alone: it holds whatever the preceding slot
\* holds
C26_AdvanceOnlyRelevant ==
    [][ConfirmCommandTick =>
          /\ sequence_current_step > 0
          /\ sequence_current_step' = sequence_current_step + 1 =>
                RelevantTo("sq_controlDoCommand", inPacket,
                           sequence[sequence_current_step - 1].packet)]_vars

\* the confirm-set-command step has run on a slot whose predecessor holds the
\* big status request of the startup sequence
C26_WitnessOverwritten ==
    /\ ev.func = "sq_controlDoCommand"
    /\ ev.callStep = 3
    /\ sequence[2].func = "sq_requestDoCommand"
    /\ sequence[2].packet.data[AC_HEADER_SIZE] = AC_CMD_STATUS_BIG


\* an Idle tick that runs to its end
IdleTick ==
    /\ ac_state = ACSM_IDLE
    /\ ev'.op = "LoopIdle"

\* C27: Idle decisions.  An Idle tick that runs to its end moves the link to
\* Sending if and only if no incoming byte is available and an outgoing frame
\* is queued (by an earlier tick or by this tick's sequence step); it moves to
\* Receiving if and only if a byte is available and the next byte is the start
\* marker, and then the incoming buffer is empty and stamped with the current
\* time and no byte has been read; in all other cases the link stays in Idle;
\* and while an incoming byte is available a queued outgoing frame stays queued
\* and unchanged.
C27_IdleDecisions ==
    [][IdleTick =>
          /\ (rx = <<>> /\ outPacket.msec > 0) => ac_state' = ACSM_SENDING_PACKET
          /\ ac_state' = ACSM_SENDING_PACKET <=> (rx = <<>> /\ outPacket'.msec > 0)
          /\ ac_state' = ACSM_RECEIVING_PACKET
                <=> (rx # <<>> /\ Head(rx) = AC_PACKET_START_BYTE)
          /\ ac_state' = ACSM_RECEIVING_PACKET =>
                /\ inPacket' = [clearPacket EXCEPT !.msec = now]
                /\ rx' = rx
          /\ ac_state' \in {ACSM_IDLE, ACSM_SENDING_PACKET, ACSM_RECEIVING_PACKET}
          /\ (rx # <<>> /\ outPacket.msec > 0) =>
                /\ outPacket' = outPacket
                /\ ac_state' # ACSM_SENDING_PACKET]_vars

\* an Idle tick has found the start marker and opened a frame, with a request
\* still queued behind it
C27_Witness ==
    /\ ev.op = "LoopIdle"
    /\ ac_state = ACSM_RECEIVING_PACKET
    /\ inPacket.msec = now
    /\ inPacket.bytesLoaded = 0
    /\ Head(rx) = AC_PACKET_START_BYTE
    /\ outPacket.msec > 0

\* an Idle tick has collected noise and stayed in Idle with a frame queued
C27_WitnessNoise ==
    /\ ev.op = "LoopIdle"
    /\ ac_state = ACSM_IDLE
    /\ inPacket.bytesLoaded > 0
    /\ outPacket.msec > 0

\* an Idle tick has built a request and handed it to the sender at once
C27_WitnessSends ==
    /\ ev.op = "LoopIdle"
    /\ ac_state = ACSM_SENDING_PACKET
    /\ ev.func = "sq_requestSmallStatus"
    /\ outPacket.msec = now


\* C28: receive timeout.  A Receiving tick leaves for Parsing exactly when
\* bytesLoaded equals 8 + body_length + 2.  A Receiving tick that does not
\* complete the frame discards the incoming buffer and returns to Idle if at
\* least 150 ms have passed since the frame's start stamp; if less than 150 ms
\* have passed and the buffer does not overflow, it stays in Receiving and
\* keeps all bytes loaded so far, with every available byte added to them.
C28_ReceiveTimeout ==
    [][TickIn(ACSM_RECEIVING_PACKET) =>
          /\ ac_state' = ACSM_PARSING_PACKET
                <=> inPacket'.bytesLoaded = AC_HEADER_SIZE + inPacket'.data[6] + 2
          /\ (ac_state' # ACSM_PARSING_PACKET
                /\ now - inPacket.msec >= AC_PACKET_TIMEOUT) =>
                /\ ac_state' = ACSM_IDLE
                /\ inPacket' = clearPacket
          /\ (ac_state' # ACSM_PARSING_PACKET
                /\ now - inPacket.msec < AC_PACKET_TIMEOUT
                /\ inPacket.bytesLoaded + Len(rx) <= AC_BUFFER_SIZE) =>
                /\ ac_state' = ACSM_RECEIVING_PACKET
                /\ inPacket'.msec = inPacket.msec
                /\ Written(inPacket') = Written(inPacket) \o rx
                /\ rx' = <<>>]_vars

\* a Receiving tick has given up on a frame exactly 150 ms after its start
\* stamp, with the rest of the frame still on the line
C28_Witness ==
    /\ ev.op = "LoopReceiving"
    /\ ac_state = ACSM_IDLE
    /\ inPacket = clearPacket
    /\ now = LoopStart + AC_PACKET_TIMEOUT
    /\ wire # <<>>

\* a Receiving tick has kept a partial frame 75 ms after its start stamp
C28_WitnessKeeps ==
    /\ ev.op = "LoopReceiving"
    /\ ac_state = ACSM_RECEIVING_PACKET
    /\ inPacket.bytesLoaded > 0
    /\ now - inPacket.msec = ReceiveStep


\* the incoming buffer never holds more than AC_BUFFER_SIZE bytes; in Parsing
\* it holds a whole frame: start marker first, a body of at most
\* AC_MAX_BODY_SIZE bytes, header, body and two checksum bytes loaded
BufferBounds ==
    /\ inPacket.bytesLoaded \in 0 .. AC_BUFFER_SIZE
    /\ ac_state = ACSM_IDLE => inPacket.bytesLoaded < AC_BUFFER_SIZE
    /\ ac_state = ACSM_PARSING_PACKET =>
          /\ inPacket.data[0] = AC_PACKET_START_BYTE
          /\ inPacket.data[6] <= AC_MAX_BODY_SIZE
          /\ inPacket.bytesLoaded = 10 + inPacket.data[6]

\* the incoming buffer holds a header that declares more than AC_MAX_BODY_SIZE
\* body bytes
Overlong(p) ==
    /\ p.bytesLoaded >= AC_HEADER_SIZE
    /\ p.data[6] > AC_MAX_BODY_SIZE

\* C29: buffer bounds.  In every reachable state the incoming buffer holds at
\* most 34 bytes, and every tick that collects bytes, in Idle as in Receiving,
\* leaves at most 34 loaded, so that no byte is written above index 33;
\* whenever the link is in Parsing the buffer starts with the start marker
\* 0xBB, declares a body of at most 24 bytes and has 10 + body_length bytes
\* loaded; a header that declares more than 24 body bytes never reaches
\* Parsing: the tick that ends its reception discards the buffer and leaves
\* the link in Idle.
C29_BufferBounds ==
    /\ []BufferBounds
    /\ [][(TickIn(ACSM_RECEIVING_PACKET) /\ (Overlong(inPacket) \/ Overlong(inPacket'))) =>
             \/ ac_state' = ACSM_RECEIVING_PACKET /\ Overlong(inPacket')
             \/ ac_state' = ACSM_IDLE /\ inPacket' = clearPacket]_vars

\* the reception of an overlong frame has ended by overflow: the buffer was
\* full when a further byte arrived
C29_Witness ==
    /\ ev.op = "LoopReceiving"
    /\ ac_state = ACSM_IDLE
    /\ inPacket = clearPacket
    /\ rx # <<>>

\* the longest frame the buffer can hold has reached Parsing
C29_WitnessFull ==
    /\ ac_state = ACSM_PARSING_PACKET
    /\ inPacket.bytesLoaded = AC_BUFFER_SIZE

\* an Idle tick has collected a burst of noise in the incoming buffer
C29_WitnessNoise ==
    /\ ev.op = "LoopIdle"
    /\ ac_state = ACSM_IDLE
    /\ inPacket.bytesLoaded = Len(Noise)
    /\ inPacket.data[0] # AC_PACKET_START_BYTE


\* what a Sending tick does with the outgoing buffer: a queued frame is written
\* once, bytesLoaded bytes of it, and the buffer is reset to empty with start
\* marker and origin flag pre-seeded; without a queued frame nothing is
\* written; either way the link returns to Idle
SenderOnce ==
    TickIn(ACSM_SENDING_PACKET) =>
       /\ ac_state' = ACSM_IDLE
       /\ outPacket.msec > 0 =>
             /\ ev'.wrote
             /\ tx' = Written(outPacket)
             /\ Len(tx') = outPacket.bytesLoaded
             /\ outPacket'.msec = 0
             /\ outPacket'.bytesLoaded = 0
             /\ outPacket'.data =
                   [i \in Indices |-> CASE i = 0 -> AC_PACKET_START_BYTE
                                        [] i = 3 -> AC_PACKET_ANSWER
                                        [] OTHER -> 0]
       /\ outPacket.msec = 0 =>
             /\ ~ev'.wrote
             /\ tx' = tx
             /\ outPacket' = outPacket

\* C30 as stated: each queued outgoing frame is transmitted exactly once.  A
\* Sending tick writes a queued frame once, resets the outgoing buffer and
\* returns to Idle, and writes nothing when no frame is queued; bytes reach
\* the serial line only in a Sending tick with a queued frame; and a queued
\* frame leaves the outgoing buffer only by being written.
C30_AsStated ==
    [][/\ SenderOnce
       /\ ev'.wrote => (TickIn(ACSM_SENDING_PACKET) /\ outPacket.msec > 0)
       /\ (tx' # tx /\ ev'.op # "Fault") => ev'.wrote
       /\ (AnyTick /\ ev'.op # "Fault" /\ outPacket.msec > 0 /\ outPacket' # outPacket)
             => ev'.wrote]_vars

\* C30 without its last part: what the sender does with the frame it finds
\* queued, and that no frame is written twice without being rebuilt.  This
\* holds.
C30_SenderOnce ==
    [][/\ SenderOnce
       /\ ev'.wrote => (TickIn(ACSM_SENDING_PACKET) /\ outPacket.msec > 0)
       /\ (tx' # tx /\ ev'.op # "Fault") => ev'.wrote]_vars

\* a ping has been parsed while a status request was queued: the outgoing
\* buffer now holds the pong and the request was never written
C30_WitnessLost ==
    /\ ev.op = "LoopParsing"
    /\ ev.ptype = AC_PTYPE_PING
    /\ outPacket = PingAnswer(now)
    /\ sequence_current_step = 1
    /\ sequence[0].packet_type = AC_SPT_SENT_PACKET
    /\ tx = <<>>


RequestFuncs ==
    {"sq_requestSmallStatus", "sq_requestBigStatus", "sq_requestDoCommand"}

\* the outgoing buffer as the sequence step of this tick finds it: a Parsing
\* tick on a valid ping has built the pong before the step runs
OutAtStep ==
    IF ac_state = ACSM_PARSING_PACKET /\ ValidPing(inPacket)
    THEN PingAnswer(now) ELSE outPacket

\* C31: a request step (small status, big status, set command) builds its
\* frame and advances the cursor by one only when the outgoing buffer is
\* empty, and then the frame kept in the slot is byte-identical to the frame
\* queued for transmission; when an outgoing frame is still pending the step
\* returns success and leaves the outgoing buffer, the slot's stored frame and
\* the cursor unchanged, so that the sequence stays loaded and the step is
\* tried again.
C31_RequestStep ==
    [][(AnyTick /\ ev'.func \in RequestFuncs) =>
          IF OutAtStep.bytesLoaded = 0
          THEN /\ sequence_current_step' = sequence_current_step + 1
               /\ outPacket'.bytesLoaded > 0
               /\ outPacket'.msec > 0
               /\ sequence'[sequence_current_step].packet.data = outPacket'.data
               /\ sequence'[sequence_current_step].packet.bytesLoaded
                     = outPacket'.bytesLoaded
               /\ sequence'[sequence_current_step].packet_type = AC_SPT_SENT_PACKET
          ELSE /\ sequence_current_step' = sequence_current_step
               /\ outPacket' = OutAtStep
               /\ sequence'[sequence_current_step].packet
                     = sequence[sequence_current_step].packet
               /\ sequence'[sequence_current_step].func = ev'.func
               /\ ~ev'.stepFailed]_vars

\* a request step found the pong still pending and left everything in place
C31_Witness ==
    /\ ev.func \in RequestFuncs
    /\ sequence_current_step = ev.callStep
    /\ sequence[sequence_current_step].func = ev.func
    /\ sequence[sequence_current_step].packet_type = AC_SPT_CLEAR
    /\ outPacket.data[2] = AC_PTYPE_PING

\* the set-command request step has built its frame and moved on
C31_WitnessBuilt ==
    /\ ev.func = "sq_requestDoCommand"
    /\ sequence_current_step = ev.callStep + 1
    /\ sequence[ev.callStep].packet.data = outPacket.data
    /\ outPacket.bytesLoaded = 25


\* a Parsing tick on a checksum-valid frame of packet type 0x06
CommandFrameTick ==
    /\ TickIn(ACSM_PARSING_PACKET)
    /\ StoredCrcMatches(inPacket)
    /\ inPacket.data[2] = AC_PTYPE_CMD

C32_CommandDiscarded ==
    [][CommandFrameTick =>
          /\ current_ac_state' =
                (IF ev'.built THEN ClampCommand(current_ac_state)
                 ELSE current_ac_state)
          /\ ~ev'.decoded
          /\ ~ev'.notified
          /\ ~ev'.stepFailed
          /\ inPacket' = clearPacket
          /\ ac_state' = ACSM_IDLE
          /\ outPacket' # outPacket =>
                (ev'.func \in RequestFuncs /\ outPacket.bytesLoaded = 0)]_vars

\* the tick that discarded a command frame has also queued a status request
C32_Witness ==
    /\ ev.op = "LoopParsing"
    /\ ev.ptype = AC_PTYPE_CMD
    /\ ev.func \in RequestFuncs
    /\ outPacket.msec = now
    /\ ac_state = ACSM_IDLE

\* a command frame arrived while a confirm step was waiting: the step ran and
\* the sequence went on
C32_WitnessConfirm ==
    /\ ev.op = "LoopParsing"
    /\ ev.ptype = AC_PTYPE_CMD
    /\ ev.func = "sq_controlSmallStatus"
    /\ sequence_current_step = ev.callStep
    /\ hasSequence(sequence)


\* a Parsing tick on a checksum-valid small status frame
SmallStatusTick ==
    /\ TickIn(ACSM_PARSING_PACKET)
    /\ StoredCrcMatches(inPacket)
    /\ inPacket.data[2] = AC_PTYPE_INFO
    /\ inPacket.data[6] = 15
    /\ inPacket.data[AC_HEADER_SIZE + 1] = AC_CMD_STATUS_SMALL

\* C33: small status decode.  For every value of body bytes 2 and 4 of a
\* checksum-valid small status frame the decoded target temperature, in tenths
\* of a degree, is 80 + 10 * (byte2 >> 3) + 5 * (byte4 >> 7) and the vertical
\* louver value is byte2 & 0x07; byte2 = 0x98 with the high bit of byte4 set
\* decodes to 27.5 degrees and vertical louver 0x00 (swing).
C33_SmallDecode ==
    [][SmallStatusTick =>
          LET byte2 == inPacket.data[AC_HEADER_SIZE + 2]
              byte4 == inPacket.data[AC_HEADER_SIZE + 4]
          IN  /\ ev'.decoded
              /\ current_ac_state'.temp_target
                    = 80 + 10 * (byte2 \div 8) + 5 * (byte4 \div 128)
              /\ current_ac_state'.louver_v = byte2 % 8
              /\ (byte2 = 152 /\ byte4 >= 128) =>
                    /\ current_ac_state'.temp_target = 275
                    /\ current_ac_state'.louver_v = 0]_vars

\* the frame with byte2 = 0x98 and the half-degree bit set has been decoded
C33_Witness ==
    /\ ev.op = "LoopParsing"
    /\ ev.decoded
    /\ current_ac_state.temp_target = 275
    /\ current_ac_state.louver_v = 0
    /\ current_ac_state.temp_target_matter

\* the highest temperature byte has been decoded: 39.5 degrees, louver 7
C33_WitnessHighest ==
    /\ ev.op = "LoopParsing"
    /\ current_ac_state.temp_target = 395
    /\ current_ac_state.louver_v = 7


ConfirmFuncs ==
    {"sq_controlSmallStatus", "sq_controlBigStatus", "sq_controlDoCommand"}

\* an Idle tick that finds noise collected in the incoming buffer while a
\* confirm step that has not timed out waits for its response
NoiseWhileConfirming ==
    /\ TickIn(ACSM_IDLE)
    /\ inPacket.bytesLoaded > 0
    /\ StepPending
    /\ sequence[sequence_current_step].func \in ConfirmFuncs

\* C34 as stated: line noise is harmless to a transaction.  Bytes collected
\* in Idle that are no start marker never change the AC State, never advance
\* the step cursor and never abort a sequence whose current step is a confirm
\* step waiting for its response.
C34_AsStated ==
    [][NoiseWhileConfirming =>
          /\ current_ac_state' = current_ac_state
          /\ sequence_current_step' = sequence_current_step
          /\ ~ev'.stepFailed
          /\ hasSequence(sequence')]_vars

\* a confirm step has taken collected noise for a response and failed: the
\* sequence is gone
C34_WitnessAborted ==
    /\ ev.op = "LoopIdle"
    /\ ev.func \in ConfirmFuncs
    /\ ev.stepFailed
    /\ ~ev.ub
    /\ ~ev.polled
    /\ sequence = NoSequence


\* C35 as stated: a frame queued in the outgoing buffer by a sequence request
\* step is never overwritten or discarded before it has been written to the
\* serial line: the outgoing buffer that holds it changes only in the tick
\* that transmits exactly that frame, whatever is received in between.
C35_AsStated ==
    [][(/\ AnyTick
        /\ ev'.op # "Fault"
        /\ outPacket.msec > 0
        /\ outPacket.data[2] = AC_PTYPE_CMD
        /\ outPacket' # outPacket) =>
          /\ ev'.wrote
          /\ tx' = Written(outPacket)]_vars

\* C35 apart from pings: a queued request is replaced only by the pong a
\* parsed ping builds; no other tick touches it before it is written
C35_UnlessPing ==
    [][(/\ AnyTick
        /\ ev'.op # "Fault"
        /\ outPacket.msec > 0
        /\ outPacket.data[2] = AC_PTYPE_CMD
        /\ outPacket' # outPacket
        /\ ~(ac_state = ACSM_PARSING_PACKET /\ ValidPing(inPacket))) =>
          /\ ev'.wrote
          /\ tx' = Written(outPacket)]_vars


\* the number of body bytes the layout of a status with this echo code has
LayoutLength(code) == IF code = AC_CMD_STATUS_SMALL THEN 15 ELSE 24

\* a Parsing tick on a checksum-valid info frame
InfoTick ==
    /\ TickIn(ACSM_PARSING_PACKET)
    /\ StoredCrcMatches(inPacket)
    /\ inPacket.data[2] = AC_PTYPE_INFO

\* C36 as stated: the parser reads only body bytes that the frame declares.
\* For a checksum-valid info frame of any body length no byte is read through
\* a body pointer that was never set, the echo code is looked at only when the
\* body holds it, and the AC State is updated only from a frame that declares
\* the whole layout of its status; a shorter frame leaves the AC State as it
\* was.
C36_AsStated ==
    [][InfoTick =>
          /\ ~ev'.ub
          /\ ev'.decoded =>
                /\ inPacket.data[6] >= 2
                /\ inPacket.data[6] >= LayoutLength(inPacket.data[AC_HEADER_SIZE + 1])
          /\ inPacket.data[6] < 15 =>
                (ev'.built \/ current_ac_state' = current_ac_state)]_vars

\* a small status code in a body of two bytes has been decoded: the target
\* temperature was taken from the checksum bytes that follow the body
C36_WitnessShort ==
    /\ ev.op = "LoopParsing"
    /\ ev.decoded
    /\ ~ev.ub
    /\ current_ac_state.temp_target = 150
    /\ current_ac_state.louver_h = 224
    /\ current_ac_state.fanSpeed = 0

\* an info frame without a body has been parsed through the null body pointer
C36_WitnessNull ==
    /\ ev.op \in {"LoopParsing", "Fault"}
    /\ ev.ub


\* the shape of the sequence: the cursor within 0..15; with slot 0 Empty every
\* slot Empty and the cursor at 0; the filled slots a prefix that starts at
\* slot 0, and slot 0, when filled, a request operation
SequenceShape ==
    /\ sequence_current_step \in 0 .. AC_SEQUENCE_MAX_LEN
    /\ sequence[0].item_type = AC_SIT_NONE =>
          /\ \A i \in Slots : sequence[i].item_type = AC_SIT_NONE
          /\ sequence_current_step = 0
    /\ \A i \in Slots \ {0} :
          sequence[i].item_type # AC_SIT_NONE => sequence[i - 1].item_type # AC_SIT_NONE
    /\ sequence[0].item_type # AC_SIT_NONE => sequence[0].func \in RequestFuncs

\* C37: sequence structure invariant.  In every reachable state the step
\* cursor is at most 15; if no transaction is in flight every slot is Empty
\* and the cursor is 0; the filled slots form a contiguous prefix starting at
\* slot 0, and slot 0, when filled, holds a request operation.  A step is
\* executed only at a cursor below 15, a confirm operation never at cursor 0,
\* and the cursor never decreases except by the reset to 0 of a clear.
C37_SequenceShape ==
    /\ []SequenceShape
    /\ [][/\ ev'.callStep \in -1 .. (AC_SEQUENCE_MAX_LEN - 1)
          /\ ev'.func \in ConfirmFuncs => ev'.callStep > 0
          /\ \/ sequence_current_step' >= sequence_current_step
             \/ sequence_current_step' = 0]_vars

\* a command transaction has reached its last step: six slots filled, the
\* cursor on the sixth
C37_Witness ==
    /\ sequence_current_step = 5
    /\ sequence[5].item_type = AC_SIT_FUNC
    /\ sequence[6].item_type = AC_SIT_NONE
    /\ ev.func = "sq_requestSmallStatus"
    /\ ev.callStep = 4

\* a command transaction was written over a startup transaction in flight
C37_WitnessOverwritten ==
    /\ ev.op = "control"
    /\ sequence_current_step = 3
    /\ sequence[3].func = "sq_controlDoCommand"
    /\ sequence[5].item_type = AC_SIT_FUNC


\* a Parsing tick on a checksum-valid frame that is no ping and does not pass
\* the relevance check of the confirm step that is current
IrrelevantFrameTick ==
    /\ TickIn(ACSM_PARSING_PACKET)
    /\ StoredCrcMatches(inPacket)
    /\ inPacket.data[2] # AC_PTYPE_PING
    /\ sequence[0].item_type # AC_SIT_NONE
    /\ sequence_current_step \in 1 .. (AC_SEQUENCE_MAX_LEN - 1)
    /\ sequence[sequence_current_step].item_type = AC_SIT_FUNC
    /\ sequence[sequence_current_step].func \in ConfirmFuncs
    /\ ~RelevantTo(sequence[sequence_current_step].func, inPacket,
                   sequence[sequence_current_step - 1].packet)

\* the tick has cleared the sequence that was in flight when it began: the
\* step failed or timed out, or the module started again
SequenceCleared ==
    \/ ev'.stepFailed
    \/ ev'.timedOut
    \/ ev'.op = "Fault"

C38_WitnessCommand ==
    /\ ev.op = "LoopParsing"
    /\ ev.ptype = AC_PTYPE_CMD
    /\ ev.func \in ConfirmFuncs
    /\ ~ev.stepFailed
    /\ ~ev.timedOut
    /\ sequence[sequence_current_step].func = ev.func


\* the sequence in flight has run every step it holds: the next call of
\* _doSequence clears it without a failed step and without a timeout
RanToEnd ==
    /\ sequence[0].item_type # AC_SIT_NONE
    /\ \/ sequence_current_step >= AC_SEQUENCE_MAX_LEN
       \/ sequence[sequence_current_step].item_type = AC_SIT_NONE

\* the frame carries every field the command sets: writing the command over
\* it changes nothing
CarriesCommand(p, cmd) == FillOne(p, cmd, p.msec) = p

\* C39 as stated: a user command is never silently dropped.  A sequence that
\* took a command from commandSequence never completes normally without
\* having issued a set-params frame that carries the command's fields: when
\* it has run to its end, the slot of its set-params step holds the frame
\* that step built and queued, and the frame carries the command last handed
\* to commandSequence.
C39_AsStated ==
    (RanToEnd /\ sequence[2].func = "sq_requestDoCommand")
        => /\ HoldsSetParams(sequence[2])
           /\ CarriesCommand(sequence[2].packet, sequence[2].cmd)

\* a transaction accepted a command while it waited for the answer to the
\* big status request, and has run to its end without a set-params frame
C39_WitnessNeverBuilt ==
    /\ RanToEnd
    /\ sequence[2].func = "sq_requestDoCommand"
    /\ ~HoldsSetParams(sequence[2])

\* a command transaction accepted a second command after its set-params frame
\* was sent, and has run to its end having issued only the first
C39_WitnessSecondDropped ==
    /\ RanToEnd
    /\ HoldsSetParams(sequence[2])
    /\ ~CarriesCommand(sequence[2].packet, sequence[2].cmd)


\* the link is in Sending and the frame waiting in the outgoing buffer is a
\* ping answer
PongWaiting ==
    /\ ac_state = ACSM_SENDING_PACKET
    /\ outPacket.bytesLoaded > 0
    /\ outPacket.data[2] = AC_PTYPE_PING

\* C40: pong priority.  The tick that parses a checksum-valid ping writes
\* nothing and ends with the link in Sending and the ping answer in the
\* outgoing buffer, whatever step of whatever sequence it runs or loads; while
\* the answer waits nothing but the sender touches the link state, the
\* outgoing buffer or the line; and the tick that follows is the sender's and
\* writes exactly the answer: no request frame reaches the line between the
\* parse of a ping and its pong.
C40_PongPriority ==
    [][/\ (TickIn(ACSM_PARSING_PACKET) /\ ValidPing(inPacket))
            => /\ ev'.op = "LoopParsing"
               /\ ac_state' = ACSM_SENDING_PACKET
               /\ outPacket' = PingAnswer(now)
               /\ tx' = tx
               /\ ~ev'.wrote
       /\ PongWaiting
            => IF AnyTick
               THEN /\ ev'.op = "LoopSending"
                    /\ ev'.wrote
                    /\ tx' = Written(outPacket)
                    /\ tx'[3] = AC_PTYPE_PING
               ELSE /\ ac_state' = ac_state
                    /\ outPacket' = outPacket
                    /\ tx' = tx]_vars

\* the pong was written while the startup transaction its ping loaded stands
\* at its first request step, the request not yet built
C40_Witness ==
    /\ ev.op = "LoopSending"
    /\ ev.wrote
    /\ tx = Written(PingAnswer(now))
    /\ sequence[0].func = "sq_requestSmallStatus"
    /\ sequence[0].packet_type = AC_SPT_CLEAR
    /\ sequence_current_step = 0

\* a ping was parsed in a tick that ran a request step of the sequence in
\* flight: the step built nothing, left the pong alone and waits
C40_WitnessWaits ==
    /\ ev.op = "LoopParsing"
    /\ ev.ptype = AC_PTYPE_PING
    /\ ev.func \in RequestFuncs
    /\ ~ev.built
    /\ PongWaiting

====
